---- MODULE Spec2Model ----
(***************************************************************************)
(* A model of the Kaleidoscope frontend: the scoped SymbolTable, the       *)
(* lexer (yylex), the bison grammar with its precedence declarations, the  *)
(* lowering of the AST (the codegen methods) and the driver loop of main.  *)
(***************************************************************************)
EXTENDS Integers, Sequences, FiniteSets, TLC

VARIABLES
    Symtab,     \* the SymbolTable object: [Depth, Values, NamedValues]
    saved,      \* history: the lookup results recorded at each open enterScope
    lastOp,     \* history: the last SymbolTable operation performed
    restored,   \* history: the lookup results recorded at the enterScope just matched
    reshadowed, \* history: the last leaveScope removed two or more bindings of
                \* one name and made an outer binding of it visible again
    Module,     \* the llvm::Module: the sequence of its functions
    status,     \* where main stands: "parsing" inside parser.parse(), "returned"
                \* when parse has returned, "exited" after the loop, or
                \* "terminated" once an exception left main
    nstmt,      \* the number of statements processed
    last,       \* history: the last statement processed and its outcome
    cin,        \* the character stream std::cin, a sequence of characters
    lex,        \* the lexer: [pos, good, LastChar, Restart]
    Optab,      \* the OperatorTable
    reported    \* the number of calls of parser::error

symHist == <<saved, lastOp, restored, reshadowed>>

lowVars == <<Module, status, nstmt, last>>

replVars == <<cin, lex, Optab, reported>>

vars ==
    <<Symtab, saved, lastOp, restored, reshadowed, Module, status, nstmt, last,
      cin, lex, Optab, reported>>

(***************************************************************************)
(* Bounds of the model.                                                    *)
(***************************************************************************)
MaxDepth == 2
MaxValues == 3
MaxStmts == 2

(***************************************************************************)
(* SymbolTable (src/SymbolTable.h).                                        *)
(* Values is the vector of SymbolInfo; indexes are kept 0-based as in the  *)
(* code, so element i of the vector is Values[i + 1].  NamedValues is the  *)
(* unordered_map, a function whose domain is the set of names present.     *)
(* A storage handle (llvm::Value * ) is a triple <<kind, id, 0>>; the null *)
(* pointer is Null.  A name (std::string) is a sequence of characters.     *)
(***************************************************************************)
NoOuter == -1

Null == <<"null", 0, 0>>

Names == {<<"x">>, <<"y">>}

Storages == {<<"a", 1, 0>>, <<"a", 2, 0>>}

SymbolTableInit == [Depth |-> 0, Values |-> <<>>, NamedValues |-> <<>>]

enterScope(sym) == [sym EXCEPT !.Depth = @ + 1]

MapErase(m, k) == [n \in (DOMAIN m) \ {k} |-> m[n]]

MapPut(m, k, v) == [n \in (DOMAIN m) \cup {k} |-> IF n = k THEN v ELSE m[n]]

\* PopBack with the restore of the outer binding forgotten.
PopBackErase(sym) ==
    LET Info == sym.Values[Len(sym.Values)]
    IN  [sym EXCEPT
            !.NamedValues = MapErase(@, Info.Name),
            !.Values = SubSeq(@, 1, Len(@) - 1)]

\* One iteration of the while loop of leaveScope: restore or erase the name
\* of the last binding, then pop it.
PopBack(sym) ==
    LET Info == sym.Values[Len(sym.Values)]
    IN  [sym EXCEPT
            !.NamedValues = IF Info.Outer # NoOuter
                            THEN MapPut(@, Info.Name, Info.Outer)
                            ELSE MapErase(@, Info.Name),
            !.Values = SubSeq(@, 1, Len(@) - 1)]

RECURSIVE PopScope(_)
PopScope(sym) ==
    IF sym.Values = <<>> THEN sym
    ELSE IF sym.Values[Len(sym.Values)].Depth # sym.Depth THEN sym
    ELSE PopScope(PopBack(sym))

\* Depth is a size_t: Depth-- at 0 wraps to (size_t)-1, written -1 here.
leaveScope(sym) == [PopScope(sym) EXCEPT !.Depth = @ - 1]

\* define that leaves the active index of a name already present untouched.
defineKeepFirst(sym, Name, Value) ==
    LET Outer == IF Name \in DOMAIN sym.NamedValues
                 THEN sym.NamedValues[Name] ELSE NoOuter
    IN  [sym EXCEPT
            !.NamedValues = IF Name \in DOMAIN @ THEN @
                            ELSE MapPut(@, Name, Len(sym.Values)),
            !.Values = Append(@, [Name |-> Name, Value |-> Value,
                                  Depth |-> sym.Depth, Outer |-> Outer])]

define(sym, Name, Value) ==
    LET Outer == IF Name \in DOMAIN sym.NamedValues
                 THEN sym.NamedValues[Name] ELSE NoOuter
    IN  [sym EXCEPT
            !.NamedValues = MapPut(@, Name, Len(sym.Values)),
            !.Values = Append(@, [Name |-> Name, Value |-> Value,
                                  Depth |-> sym.Depth, Outer |-> Outer])]

lookup(sym, Name) ==
    IF Name \in DOMAIN sym.NamedValues
    THEN sym.Values[sym.NamedValues[Name] + 1].Value
    ELSE Null

(***************************************************************************)
(* The Backend objects the lowering builds (llvm::Module, llvm::Function,  *)
(* llvm::BasicBlock, instructions), as far as the lowering decides them.   *)
(*   value      <<"c", m, k>>  the constant m / 10^k                       *)
(*              <<"r", id, 0>> the result of instruction id                *)
(*              <<"a", id, 0>> the stack slot of alloca id                 *)
(*              <<"p", i, 0>>  parameter i of the function                 *)
(*              <<"b", id, 0>> basic block id                              *)
(*   instr      [op, id, nm, args, callee]                                 *)
(*   block      [id, label, instrs]                                        *)
(*   function   [name, suffix, params, blocks]: suffix > 0 is the suffix   *)
(*              LLVM appends to a name the module already holds            *)
(* A lowering in progress is a record cg:                                  *)
(*   sym  the SymbolTable          mod  the Module (sequence of functions) *)
(*   fn   the function being built (index into mod)                        *)
(*   cur  the Builder's insert block (block id)                            *)
(*   nid  the next unused id       err  the exception in flight or "none"  *)
(*   under  history: leaveScope has been called at depth 0                 *)
(* An exception in flight skips every later step of the lowering.          *)
(***************************************************************************)
Const(m, k) == <<"c", m, k>>

Zero == Const(0, 0)

One == Const(1, 0)

NoCallee == <<<<>>, 0>>

Instr(op, id, nm, args) ==
    [op |-> op, id |-> id, nm |-> nm, args |-> args, callee |-> NoCallee]

Thrown(cg) == cg.err # "none"

Throw(cg, e) == IF Thrown(cg) THEN cg ELSE [cg EXCEPT !.err = e]

BlockIndex(f, bid) == CHOOSE i \in 1 .. Len(f.blocks) : f.blocks[i].id = bid

\* IRBuilder: append an instruction to the insert block.
Emit(cg, ins) ==
    IF Thrown(cg) THEN cg
    ELSE LET f == cg.mod[cg.fn]
             b == BlockIndex(f, cg.cur)
         IN  [cg EXCEPT !.mod[cg.fn].blocks[b].instrs = Append(@, ins)]

\* An instruction with a result: emitted under the next unused id.
EmitValue(cg, op, nm, args) ==
    IF Thrown(cg) THEN [cg |-> cg, val |-> Null]
    ELSE [cg |-> [Emit(cg, Instr(op, cg.nid, nm, args)) EXCEPT !.nid = @ + 1],
          val |-> <<"r", cg.nid, 0>>]

\* Builder.CreateCall(Func, Args, nm).
EmitCall(cg, callee, nm, args) ==
    IF Thrown(cg) THEN [cg |-> cg, val |-> Null]
    ELSE [cg |-> [Emit(cg, [Instr("call", cg.nid, nm, args) EXCEPT !.callee = callee])
                     EXCEPT !.nid = @ + 1],
          val |-> <<"r", cg.nid, 0>>]

\* llvm::BasicBlock::Create(Context, label): a block not yet in the function.
NewBlock(cg) ==
    IF Thrown(cg) THEN [cg |-> cg, id |-> 0]
    ELSE [cg |-> [cg EXCEPT !.nid = @ + 1], id |-> cg.nid]

\* Func->getBasicBlockList().push_back(BB).
PushBlock(cg, bid, label) ==
    IF Thrown(cg) THEN cg
    ELSE [cg EXCEPT !.mod[cg.fn].blocks =
             Append(@, [id |-> bid, label |-> label, instrs |-> <<>>])]

SetInsertPoint(cg, bid) == IF Thrown(cg) THEN cg ELSE [cg EXCEPT !.cur = bid]

\* CreateEntryAlloca: an alloca inserted at the beginning of the entry block.
CreateEntryAlloca(cg, VarName) ==
    IF Thrown(cg) THEN [cg |-> cg, val |-> Null]
    ELSE [cg |-> [cg EXCEPT
                    !.mod[cg.fn].blocks[1].instrs =
                        <<Instr("alloca", cg.nid, "alloca", <<VarName>>)>> \o @,
                    !.nid = @ + 1],
          val |-> <<"a", cg.nid, 0>>]

SymEnter(cg) == IF Thrown(cg) THEN cg ELSE [cg EXCEPT !.sym = enterScope(@)]

SymLeave(cg) ==
    IF Thrown(cg) THEN cg
    ELSE [cg EXCEPT !.sym = leaveScope(@), !.under = @ \/ cg.sym.Depth = 0]

SymDefine(cg, n, v) == IF Thrown(cg) THEN cg ELSE [cg EXCEPT !.sym = define(@, n, v)]

\* Module.getFunction(Name): the function holding exactly this name, 0 if none.
getFunction(mod, Name) ==
    IF \E i \in 1 .. Len(mod) : mod[i].name = Name /\ mod[i].suffix = 0
    THEN CHOOSE i \in 1 .. Len(mod) : mod[i].name = Name /\ mod[i].suffix = 0
    ELSE 0

CalleeOf(mod, i) == <<mod[i].name, mod[i].suffix>>

UnaryPrefix == <<"u", "n", "a", "r", "y">>

BinaryPrefix == <<"b", "i", "n", "a", "r", "y">>

(***************************************************************************)
(* The AST (src/unnamed/part_002, lines 171-354), as tagged tuples:        *)
(*   <<"Constant", <<m, k>>>>            <<"Variable", Name>>              *)
(*   <<"UnaryExpr", Operator, Operand>>  <<"BinaryExpr", Operator, LHS, RHS>>*)
(*   <<"CallExpr", Name, Args>>          <<"IfExpr", Cond, Then, Else>>    *)
(*   <<"ForExpr", VarName, Init, Cond, Step, Body>>   (Step may be NoExpr) *)
(*   <<"VarExpr", Defs, Body>>   with Defs a sequence of <<VarName, Init>> *)
(*   <<"Prototype", Name, Params>>       <<"Function", Proto, Body>>       *)
(* The lowering (src/Kaleidoscope.cc, lines 27-312).  Each codegen method  *)
(* yields [cg, val]: the lowering state after it and the value returned.   *)
(* The Backend's folding of constant operands is outside the model: an     *)
(* instruction is recorded for every Builder.Create call.                  *)
(***************************************************************************)
NoExpr == <<"none">>

Br(bid) == Instr("br", 0, "br", << <<"b", bid, 0>> >>)

CondBr(c, t, f) == Instr("condbr", 0, "condbr", <<c, <<"b", t, 0>>, <<"b", f, 0>> >>)

Store(v, slot) == Instr("store", 0, "store", <<v, slot>>)

Failed(cg, e) == [cg |-> Throw(cg, e), val |-> Null]

RECURSIVE Codegen(_, _)

ConstantCodegen(e, cg) == [cg |-> cg, val |-> Const(e[2][1], e[2][2])]

VariableCodegen(e, cg) ==
    LET Alloca == lookup(cg.sym, e[2])
    IN  IF Alloca = Null THEN Failed(cg, "UnknownVariable")
        ELSE EmitValue(cg, "load", "load", <<Alloca>>)

UnaryExprCodegen(e, cg) ==
    LET OperandValue == Codegen(e[3], cg)
        Func == getFunction(OperandValue.cg.mod, UnaryPrefix \o <<e[2]>>)
    IN  IF Thrown(OperandValue.cg) THEN OperandValue
        ELSE IF Func = 0 THEN Failed(OperandValue.cg, "UnknownOperator")
        ELSE EmitCall(OperandValue.cg, CalleeOf(OperandValue.cg.mod, Func),
        "unop", <<OperandValue.val>>)

\* The switch over the operator, once both operands are lowered.
\* A user-defined operator called with its operands exchanged.
BinaryOperationSwapped(Operator, cg, LHSValue, RHSValue) ==
    CASE Operator = "+" -> EmitValue(cg, "fadd", "addtmp", <<LHSValue, RHSValue>>)
      [] Operator = "-" -> EmitValue(cg, "fsub", "subtmp", <<LHSValue, RHSValue>>)
      [] Operator = "*" -> EmitValue(cg, "fmul", "multmp", <<LHSValue, RHSValue>>)
      [] Operator = "<" ->
            LET CmpValue == EmitValue(cg, "fcmp_ult", "cmptmp", <<LHSValue, RHSValue>>)
            IN  EmitValue(CmpValue.cg, "uitofp", "booltmp", <<CmpValue.val>>)
      [] OTHER ->
            LET Func == getFunction(cg.mod, BinaryPrefix \o <<Operator>>)
            IN  IF Func = 0 THEN Failed(cg, "UnknownOperator")
                ELSE EmitCall(cg, CalleeOf(cg.mod, Func), "binop", <<RHSValue, LHSValue>>)

BinaryOperation(Operator, cg, LHSValue, RHSValue) ==
    CASE Operator = "+" -> EmitValue(cg, "fadd", "addtmp", <<LHSValue, RHSValue>>)
      [] Operator = "-" -> EmitValue(cg, "fsub", "subtmp", <<LHSValue, RHSValue>>)
      [] Operator = "*" -> EmitValue(cg, "fmul", "multmp", <<LHSValue, RHSValue>>)
      [] Operator = "<" ->
            LET CmpValue == EmitValue(cg, "fcmp_ult", "cmptmp", <<LHSValue, RHSValue>>)
            IN  EmitValue(CmpValue.cg, "uitofp", "booltmp", <<CmpValue.val>>)
      [] OTHER ->
            LET Func == getFunction(cg.mod, BinaryPrefix \o <<Operator>>)
            IN  IF Func = 0 THEN Failed(cg, "UnknownOperator")
                ELSE EmitCall(cg, CalleeOf(cg.mod, Func), "binop", <<LHSValue, RHSValue>>)

\* An assignment that lowers its destination as a value before it stores.
AssignLoadsDestination(e, RHSValue) ==
    LET LHSValue == VariableCodegen(e[3], RHSValue.cg)
    IN  IF Thrown(LHSValue.cg) THEN LHSValue
        ELSE [cg |-> Emit(LHSValue.cg, Store(RHSValue.val, lookup(RHSValue.cg.sym, e[3][2]))),
              val |-> RHSValue.val]

\* The assignment branch of BinaryExpr::codegen, the right operand lowered.
AssignCodegen(e, RHSValue) ==
    LET Alloca == lookup(RHSValue.cg.sym, e[3][2])
    IN  IF Alloca = Null THEN Failed(RHSValue.cg, "UnknownVariable")
        ELSE [cg |-> Emit(RHSValue.cg, Store(RHSValue.val, Alloca)),
        val |-> RHSValue.val]

BinaryExprCodegen(e, cg) ==
    LET RHSValue == Codegen(e[4], cg)
    IN  IF Thrown(RHSValue.cg) THEN RHSValue
        ELSE IF e[2] = "=" THEN AssignCodegen(e, RHSValue)
        ELSE (LET LHSValue == Codegen(e[3], RHSValue.cg)
              IN  IF Thrown(LHSValue.cg) THEN LHSValue
                  ELSE BinaryOperation(e[2], LHSValue.cg, LHSValue.val, RHSValue.val))

\* for (auto &Arg : Args) ArgValues.push_back(Arg->codegen(...)), from Args[i] on.
RECURSIVE CodegenArgs(_, _, _, _)
CodegenArgs(Args, i, cg, ArgValues) ==
    IF i > Len(Args) \/ Thrown(cg) THEN [cg |-> cg, vals |-> ArgValues]
    ELSE (LET a == Codegen(Args[i], cg)
              vals == Append(ArgValues, a.val)
          IN  CodegenArgs(Args, i + 1, a.cg, vals))

\* A call whose arguments are lowered ahead of the checks on the callee.
CallExprArgsFirst(e, cg) ==
    LET a == CodegenArgs(e[3], 1, cg, <<>>)
        Callee == getFunction(a.cg.mod, e[2])
    IN  IF Thrown(a.cg) THEN [cg |-> a.cg, val |-> Null]
        ELSE IF Callee = 0 THEN Failed(a.cg, "UnknownFunction")
        ELSE IF Len(a.cg.mod[Callee].params) # Len(e[3])
        THEN Failed(a.cg, "ArityMismatch")
        ELSE EmitCall(a.cg, CalleeOf(a.cg.mod, Callee), "calltmp", a.vals)

CallExprCodegen(e, cg) ==
    LET Callee == getFunction(cg.mod, e[2])
    IN  IF Callee = 0 THEN Failed(cg, "UnknownFunction")
        ELSE IF Len(cg.mod[Callee].params) # Len(e[3]) THEN Failed(cg, "ArityMismatch")
        ELSE (LET a == CodegenArgs(e[3], 1, cg, <<>>)
              IN  EmitCall(a.cg, CalleeOf(cg.mod, Callee), "calltmp", a.vals))

\* An if whose merge node names the blocks created for the branches.
IfExprBranchBlocks(e, cg) ==
    LET c == Codegen(e[2], cg)
        CondValue == EmitValue(c.cg, "fcmp_one", "cond", <<c.val, Zero>>)
        tb == NewBlock(CondValue.cg)
        g1 == PushBlock(tb.cg, tb.id, "Then")
        eb == NewBlock(g1)
        mb == NewBlock(eb.cg)
        g2 == Emit(mb.cg, CondBr(CondValue.val, tb.id, eb.id))
        g3 == SetInsertPoint(g2, tb.id)
        ThenValue == Codegen(e[3], g3)
        g4 == Emit(ThenValue.cg, Br(mb.id))
        g5 == PushBlock(g4, eb.id, "Else")
        g6 == SetInsertPoint(g5, eb.id)
        ElseValue == Codegen(e[4], g6)
        g7 == Emit(ElseValue.cg, Br(mb.id))
        g8 == PushBlock(g7, mb.id, "Merge")
        g9 == SetInsertPoint(g8, mb.id)
    IN  EmitValue(g9, "phi", "iftmp",
        <<ThenValue.val, <<"b", tb.id, 0>>,
        ElseValue.val, <<"b", eb.id, 0>> >>)

IfExprCodegen(e, cg) ==
    LET c == Codegen(e[2], cg)
        CondValue == EmitValue(c.cg, "fcmp_one", "cond", <<c.val, Zero>>)
        tb == NewBlock(CondValue.cg)
        g1 == PushBlock(tb.cg, tb.id, "Then")
        eb == NewBlock(g1)
        mb == NewBlock(eb.cg)
        g2 == Emit(mb.cg, CondBr(CondValue.val, tb.id, eb.id))
        g3 == SetInsertPoint(g2, tb.id)
        ThenValue == Codegen(e[3], g3)
        g4 == Emit(ThenValue.cg, Br(mb.id))
        \* ThenBB = Builder.GetInsertBlock() is g4.cur
        g5 == PushBlock(g4, eb.id, "Else")
        g6 == SetInsertPoint(g5, eb.id)
        ElseValue == Codegen(e[4], g6)
        g7 == Emit(ElseValue.cg, Br(mb.id))
        \* ElseBB = Builder.GetInsertBlock() is g7.cur
        g8 == PushBlock(g7, mb.id, "Merge")
        g9 == SetInsertPoint(g8, mb.id)
    IN  EmitValue(g9, "phi", "iftmp",
        <<ThenValue.val, <<"b", g4.cur, 0>>,
        ElseValue.val, <<"b", g7.cur, 0>> >>)

\* The loop lowered with the condition tested ahead of the body.
ForLoopCondFirst(e, Alloca, lb, g) ==
    LET c == Codegen(e[4], g)
        CondValue == EmitValue(c.cg, "fcmp_one", "cond", <<c.val, Zero>>)
        Body == Codegen(e[6], CondValue.cg)
        StepValue == IF e[5] # NoExpr THEN Codegen(e[5], Body.cg)
                     ELSE [cg |-> Body.cg, val |-> One]
        CurrValue == EmitValue(StepValue.cg, "load", "load", <<Alloca>>)
        NextValue == EmitValue(CurrValue.cg, "fadd", "nextvar",
                               <<CurrValue.val, StepValue.val>>)
        g1 == Emit(NextValue.cg, Store(NextValue.val, Alloca))
        xb == NewBlock(g1)
        g2 == PushBlock(xb.cg, xb.id, "Exit")
        g3 == Emit(g2, CondBr(CondValue.val, g1.cur, xb.id))
        g4 == SymLeave(g3)
        g5 == SetInsertPoint(g4, xb.id)
    IN  [cg |-> g5, val |-> IF Thrown(g5) THEN Null ELSE Zero]

\* ForExpr::codegen from the loop block on: Alloca is the loop variable's
\* slot, lb the block created as "Loop", g the state with lb as insert block.
ForLoopCodegen(e, Alloca, lb, g) ==
    LET Body == Codegen(e[6], g)
        StepValue == IF e[5] # NoExpr THEN Codegen(e[5], Body.cg)
                     ELSE [cg |-> Body.cg, val |-> One]
        CurrValue == EmitValue(StepValue.cg, "load", "load", <<Alloca>>)
        NextValue == EmitValue(CurrValue.cg, "fadd", "nextvar",
                               <<CurrValue.val, StepValue.val>>)
        g1 == Emit(NextValue.cg, Store(NextValue.val, Alloca))
        c == Codegen(e[4], g1)
        CondValue == EmitValue(c.cg, "fcmp_one", "cond", <<c.val, Zero>>)
        \* LoopBB = Builder.GetInsertBlock(): the back edge goes to the block that
        \* is current after the condition, CondValue.cg.cur, not to lb.
        xb == NewBlock(CondValue.cg)
        g2 == PushBlock(xb.cg, xb.id, "Exit")
        g3 == Emit(g2, CondBr(CondValue.val, CondValue.cg.cur, xb.id))
        g4 == SymLeave(g3)
        g5 == SetInsertPoint(g4, xb.id)
    IN  [cg |-> g5, val |-> IF Thrown(g5) THEN Null ELSE Zero]

ForExprCodegen(e, cg) ==
    LET g0 == SymEnter(cg)
        Alloca == CreateEntryAlloca(g0, e[2])
        g1 == SymDefine(Alloca.cg, e[2], Alloca.val)
        InitValue == Codegen(e[3], g1)
        g2 == Emit(InitValue.cg, Store(InitValue.val, Alloca.val))
        lb == NewBlock(g2)
        g3 == PushBlock(lb.cg, lb.id, "Loop")
        g4 == Emit(g3, Br(lb.id))
        g5 == SetInsertPoint(g4, lb.id)
    IN  ForLoopCodegen(e, Alloca.val, lb, g5)

\* A def whose name is bound before its initializer is lowered.
VarDefBindFirst(Def, cg) ==
    LET Alloca == CreateEntryAlloca(cg, Def[1])
        g1 == SymDefine(Alloca.cg, Def[1], Alloca.val)
        InitValue == IF Def[2] # NoExpr THEN Codegen(Def[2], g1)
                     ELSE [cg |-> g1, val |-> Zero]
    IN  Emit(InitValue.cg, Store(InitValue.val, Alloca.val))

\* One iteration of the loop over Defs in VarExpr::codegen.
VarDefCodegen(Def, cg) ==
    LET InitValue == IF Def[2] # NoExpr THEN Codegen(Def[2], cg)
                     ELSE [cg |-> cg, val |-> Zero]
        Alloca == CreateEntryAlloca(InitValue.cg, Def[1])
        g1 == Emit(Alloca.cg, Store(InitValue.val, Alloca.val))
    IN  SymDefine(g1, Def[1], Alloca.val)

RECURSIVE VarDefsCodegen(_, _, _)
VarDefsCodegen(Defs, i, cg) ==
    IF i > Len(Defs) \/ Thrown(cg) THEN cg
    ELSE (LET g == VarDefCodegen(Defs[i], cg)
          IN  VarDefsCodegen(Defs, i + 1, g))

\* A VarExpr that leaves its scope open.
VarExprKeepsScope(e, cg) ==
    LET g0 == SymEnter(cg)
        g1 == VarDefsCodegen(e[2], 1, g0)
    IN  Codegen(e[3], g1)

VarExprCodegen(e, cg) ==
    LET g0 == SymEnter(cg)
        g1 == VarDefsCodegen(e[2], 1, g0)
        BodyValue == Codegen(e[3], g1)
    IN  [cg |-> SymLeave(BodyValue.cg), val |-> BodyValue.val]

\* The virtual call e->codegen(Module, Builder, Symtab).
Dispatch(e, cg) ==
    IF Thrown(cg) THEN [cg |-> cg, val |-> Null]
    ELSE CASE e[1] = "Constant" -> ConstantCodegen(e, cg)
           [] e[1] = "Variable" -> VariableCodegen(e, cg)
           [] e[1] = "UnaryExpr" -> UnaryExprCodegen(e, cg)
           [] e[1] = "BinaryExpr" -> BinaryExprCodegen(e, cg)
           [] e[1] = "CallExpr" -> CallExprCodegen(e, cg)
           [] e[1] = "IfExpr" -> IfExprCodegen(e, cg)
           [] e[1] = "ForExpr" -> ForExprCodegen(e, cg)
           [] e[1] = "VarExpr" -> VarExprCodegen(e, cg)

Codegen(e0, cg0) == (LET e == e0
                         cg == cg0
                     IN  Dispatch(e, cg))

\* llvm::Function::Create(FuncType, ExternalLinkage, Name, Module) always
\* yields a function: when the module already holds Name, the new function
\* is given the name with a suffix that makes it unique.
FunctionCreate(mod, Name, Params) ==
    LET same == {i \in 1 .. Len(mod) : mod[i].name = Name}
        suffix == IF same = {} THEN 0
                  ELSE 1 + (CHOOSE n \in {mod[i].suffix : i \in same} :
                  \A i \in same : mod[i].suffix <= n)
    IN  Append(mod, [name |-> Name, suffix |-> suffix, params |-> Params,
        blocks |-> <<>>])

\* Prototype::codegen: the result func is the function created (an index into
\* the module), 0 standing for a null pointer.
PrototypeCodegen(p, cg) ==
    LET mod == FunctionCreate(cg.mod, p[2], p[3])
    IN  [cg |-> [cg EXCEPT !.mod = mod], func |-> Len(mod)]

\* for (auto &Param : Func->args()) of Function::codegen, from parameter i on.
RECURSIVE ParamsCodegen(_, _, _)
ParamsCodegen(Params, i, cg) ==
    IF i > Len(Params) THEN cg
    ELSE (LET Alloca == CreateEntryAlloca(cg, Params[i])
              g1 == Emit(Alloca.cg, Store(<<"p", i, 0>>, Alloca.val))
              g2 == SymDefine(g1, Params[i], Alloca.val)
          IN  ParamsCodegen(Params, i + 1, g2))

\* Function::codegen once the prototype has yielded a function.
FunctionBodyCodegen(fn, g0) ==
    LET EntryBB == NewBlock(g0)
        g1 == PushBlock(EntryBB.cg, EntryBB.id, "Entry")
        g2 == SetInsertPoint(g1, EntryBB.id)
        g3 == SymEnter(g2)
        g4 == ParamsCodegen(fn[2][3], 1, g3)
        RetValue == Codegen(fn[3], g4)
        g5 == Emit(RetValue.cg, Instr("ret", 0, "ret", <<RetValue.val>>))
    IN  SymLeave(g5)

\* A Function::codegen whose prototype yields no function for a name the
\* module holds, so that the branch for a redefinition is taken.
FunctionCodegenRedefines(fn, cg) ==
    LET pr == PrototypeCodegen(fn[2], cg)
    IN  IF getFunction(cg.mod, fn[2][2]) # 0
        THEN Throw(SymLeave(pr.cg), "FunctionRedefinition")
        ELSE FunctionBodyCodegen(fn, [pr.cg EXCEPT !.fn = pr.func, !.nid = 1])

\* Function::codegen; verifyFunction and PassManager.run are the Backend's.
FunctionCodegen(fn, cg) ==
    LET pr == PrototypeCodegen(fn[2], cg)
    IN  IF pr.func = 0
        THEN Throw(SymLeave(pr.cg), "FunctionRedefinition")
        ELSE FunctionBodyCodegen(fn, [pr.cg EXCEPT !.fn = pr.func, !.nid = 1])

(***************************************************************************)
(* Execution of the emitted instructions, to state what a lowered          *)
(* statement evaluates to.  A number is <<m, k>>, the decimal m / 10^k     *)
(* with k as small as possible; Undef is the content of a stack slot never *)
(* stored to.  A run yields [ok, val, trace, fuel]: trace is the sequence  *)
(* of the instructions executed in the function run.                       *)
(***************************************************************************)
ExecFuel == 40

Undef == <<0, -1>>

RECURSIVE Pow10(_)
Pow10(k) == IF k = 0 THEN 1 ELSE 10 * Pow10(k - 1)

RECURSIVE DecNorm(_)
DecNorm(d) ==
    IF d[2] > 0 /\ d[1] % 10 = 0 THEN DecNorm(<<d[1] \div 10, d[2] - 1>>) ELSE d

DecMax(a, b) == IF a >= b THEN a ELSE b

DecAlign(d, k) == d[1] * Pow10(k - d[2])

DecAdd(a, b) ==
    LET k == DecMax(a[2], b[2]) IN DecNorm(<<DecAlign(a, k) + DecAlign(b, k), k>>)

DecSub(a, b) ==
    LET k == DecMax(a[2], b[2]) IN DecNorm(<<DecAlign(a, k) - DecAlign(b, k), k>>)

DecMul(a, b) == DecNorm(<<a[1] * b[1], a[2] + b[2]>>)

DecLt(a, b) ==
    LET k == DecMax(a[2], b[2]) IN DecAlign(a, k) < DecAlign(b, k)

Bool(b) == IF b THEN <<1, 0>> ELSE <<0, 0>>

Arith(op, a, b) ==
    IF a = Undef \/ b = Undef THEN Undef
    ELSE CASE op = "fadd" -> DecAdd(a, b)
           [] op = "fsub" -> DecSub(a, b)
           [] op = "fmul" -> DecMul(a, b)
           [] op = "fcmp_ult" -> Bool(DecLt(a, b))
           [] op = "fcmp_one" -> Bool(a # b)

ValueOf(st, v) ==
    CASE v[1] = "c" -> <<v[2], v[3]>>
      [] v[1] = "r" -> st.regs[v[2]]
      [] v[1] = "p" -> st.args[v[2]]

FunctionIndex(mod, callee) ==
    CHOOSE i \in 1 .. Len(mod) : mod[i].name = callee[1] /\ mod[i].suffix = callee[2]

Jump(f, st, bid) ==
    [st EXCEPT !.prev = f.blocks[st.blk].id, !.blk = BlockIndex(f, bid), !.pc = 1]

RECURSIVE RunFn(_, _, _, _)
RECURSIVE Steps(_, _, _)
\* The instruction at st.pc of block st.blk, then the ones after it.
StepsFrom(mod, f, st) ==
    IF st.fuel = 0 \/ st.pc > Len(f.blocks[st.blk].instrs)
    THEN [ok |-> FALSE, val |-> Undef, trace |-> st.trace, fuel |-> st.fuel]
    ELSE
    LET ins == f.blocks[st.blk].instrs[st.pc]
        s1 == [st EXCEPT !.pc = @ + 1, !.fuel = @ - 1, !.trace = Append(@, ins)]
        Set(v) == [s1 EXCEPT !.regs = MapPut(@, ins.id, v)]
    IN  CASE ins.op = "alloca" ->
                Steps(mod, f, [s1 EXCEPT !.mem = MapPut(@, ins.id, Undef)])
          [] ins.op = "load" -> Steps(mod, f, Set(st.mem[ins.args[1][2]]))
          [] ins.op = "store" ->
                Steps(mod, f, [s1 EXCEPT !.mem =
                                  MapPut(@, ins.args[2][2], ValueOf(st, ins.args[1]))])
          [] ins.op \in {"fadd", "fsub", "fmul", "fcmp_ult", "fcmp_one"} ->
                Steps(mod, f, Set(Arith(ins.op, ValueOf(st, ins.args[1]),
                                        ValueOf(st, ins.args[2]))))
          [] ins.op = "uitofp" -> Steps(mod, f, Set(ValueOf(st, ins.args[1])))
          [] ins.op = "br" -> Steps(mod, f, Jump(f, s1, ins.args[1][2]))
          [] ins.op = "condbr" ->
                LET c == ValueOf(st, ins.args[1])
                IN  IF c = Undef
                    THEN [ok |-> FALSE, val |-> Undef, trace |-> s1.trace,
                          fuel |-> s1.fuel]
                    ELSE Steps(mod, f, Jump(f, s1, IF c # <<0, 0>> THEN ins.args[2][2]
                                                   ELSE ins.args[3][2]))
          [] ins.op = "phi" ->
                Steps(mod, f, Set(IF ins.args[2][2] = st.prev
                                  THEN ValueOf(st, ins.args[1])
                                  ELSE ValueOf(st, ins.args[3])))
          [] ins.op = "call" ->
                LET r == RunFn(mod, FunctionIndex(mod, ins.callee),
                         [i \in 1 .. Len(ins.args) |-> ValueOf(st, ins.args[i])],
                         s1.fuel)
                IN  IF ~r.ok THEN [r EXCEPT !.trace = s1.trace]
                    ELSE Steps(mod, f, [Set(r.val) EXCEPT !.fuel = r.fuel])
          [] ins.op = "ret" ->
                [ok |-> TRUE, val |-> ValueOf(st, ins.args[1]), trace |-> s1.trace,
                 fuel |-> s1.fuel]

Steps(mod, f, st0) == (LET st == st0
                       IN  StepsFrom(mod, f, st))

\* Run function fi of the module on args; a declaration without a body
\* cannot be run.
RunFn(mod, fi, args, fuel) ==
    IF mod[fi].blocks = <<>>
    THEN [ok |-> FALSE, val |-> Undef, trace |-> <<>>, fuel |-> fuel]
    ELSE Steps(mod, mod[fi], [blk |-> 1, prev |-> 0, pc |-> 1, regs |-> <<>>,
                              mem |-> <<>>, trace |-> <<>>, fuel |-> fuel,
                              args |-> args])

(***************************************************************************)
(* The OperatorTable behind Symtab.define(char, unsigned) and              *)
(* Symtab.getTokPrecedence(char): a map from operator characters to their  *)
(* precedence class; a character never defined has no class, written 0.    *)
(***************************************************************************)
\* A table in which the first definition of a symbol stays.
OperatorDefineOnce(optab, symbol, precedence) ==
    IF symbol \in DOMAIN optab THEN optab ELSE MapPut(optab, symbol, precedence)

OperatorDefine(optab, symbol, precedence) == MapPut(optab, symbol, precedence)

getTokPrecedence(optab, symbol) ==
    IF symbol \in DOMAIN optab THEN optab[symbol] ELSE 0

(***************************************************************************)
(* yylex.  The character stream is the sequence inp of one-character       *)
(* strings; the lexer's state lx is                                        *)
(*   pos       the index in inp of the next character to read              *)
(*   good      the state of std::cin, FALSE once a read of std::cin has    *)
(*             found the end of the stream                                 *)
(*   LastChar  the character read last and not yet consumed, or EOF        *)
(*   Restart   which prompt is due at the next line                        *)
(* A token is [type, val, level]: type is the token's name or, for a       *)
(* single-character token, the character; level is the k of OPERATORk and  *)
(* 0 otherwise.  The prompts written to std::cout are left out.            *)
(***************************************************************************)
EOF == "EOF"

Space == {" ", "\n", "\t", "\r"}

Alpha ==
    {"a", "b", "c", "d", "e", "f", "g", "h", "i", "j", "k", "l", "m", "n", "o",
     "p", "q", "r", "s", "t", "u", "v", "w", "x", "y", "z"}

DigitChars == <<"0", "1", "2", "3", "4", "5", "6", "7", "8", "9">>

Digit == {DigitChars[i] : i \in 1 .. 10}

DigitValue(c) == (CHOOSE i \in 1 .. 10 : DigitChars[i] = c) - 1

Operators == {"!", "&", ".", "/", ":", ">", "|"}

Keywords ==
    [type : {"DEF"}, text : {<<"d", "e", "f">>}]
    \cup [type : {"EXTERN"}, text : {<<"e", "x", "t", "e", "r", "n">>}]
    \cup [type : {"IF"}, text : {<<"i", "f">>}]
    \cup [type : {"THEN"}, text : {<<"t", "h", "e", "n">>}]
    \cup [type : {"ELSE"}, text : {<<"e", "l", "s", "e">>}]
    \cup [type : {"FOR"}, text : {<<"f", "o", "r">>}]
    \cup [type : {"IN"}, text : {<<"i", "n">>}]
    \cup [type : {"UNARY"}, text : {<<"u", "n", "a", "r", "y">>}]
    \cup [type : {"BINARY"}, text : {<<"b", "i", "n", "a", "r", "y">>}]
    \cup [type : {"VAR"}, text : {<<"v", "a", "r">>}]

Token(type, val, level) == [type |-> type, val |-> val, level |-> level]

NoToken == Token("none", <<>>, 0)

\* std::cin.get(): at the end of the stream it yields EOF and std::cin
\* turns false.
CinGet(inp, lx) ==
    IF lx.pos <= Len(inp)
    THEN [lx EXCEPT !.LastChar = inp[lx.pos], !.pos = @ + 1]
    ELSE [lx EXCEPT !.LastChar = EOF, !.good = FALSE]

\* getchar(): reads the same stream through stdio; the end of the stream
\* found here is not recorded in std::cin.
GetChar(inp, lx) ==
    IF lx.pos <= Len(inp)
    THEN [lx EXCEPT !.LastChar = inp[lx.pos], !.pos = @ + 1]
    ELSE [lx EXCEPT !.LastChar = EOF]

\* while (isspace(LastChar)) LastChar = std::cin.get();
RECURSIVE SkipSpace(_, _)
SkipSpace(inp, lx) ==
    IF lx.LastChar \in Space THEN SkipSpace(inp, CinGet(inp, lx)) ELSE lx

\* do { Text += LastChar; } while (isalnum(LastChar = getchar()));
RECURSIVE ScanIdentifier(_, _, _)
ScanIdentifier(inp, lx, Text) ==
    LET t == Append(Text, lx.LastChar)
        l1 == GetChar(inp, lx)
    IN  IF l1.LastChar \in Alpha \cup Digit THEN ScanIdentifier(inp, l1, t)
        ELSE [lx |-> l1, Text |-> t]

IdentifierToken(Text) ==
    IF \E k \in Keywords : k.text = Text
    THEN Token((CHOOSE k \in Keywords : k.text = Text).type, Text, 0)
    ELSE Token("IDENTIFIER", Text, 0)

\* A number scan that takes every dot.
RECURSIVE ScanNumberAnyDot(_, _, _, _)
ScanNumberAnyDot(inp, lx, NumStr, HasDot) ==
    LET n == Append(NumStr, lx.LastChar)
        l1 == CinGet(inp, lx)
    IN  IF l1.LastChar \in Digit \/ l1.LastChar = "."
        THEN ScanNumberAnyDot(inp, l1, n, HasDot)
        ELSE [lx |-> l1, NumStr |-> n]

\* The do-while of the number scan.
RECURSIVE ScanNumber(_, _, _, _)
ScanNumber(inp, lx, NumStr, HasDot) ==
    LET n == Append(NumStr, lx.LastChar)
        h == HasDot \/ lx.LastChar = "."
        l1 == CinGet(inp, lx)
    IN  IF l1.LastChar \in Digit \/ (l1.LastChar = "." /\ ~h)
        THEN ScanNumber(inp, l1, n, h)
        ELSE [lx |-> l1, NumStr |-> n]

\* strtod on digits with at most one dot: m collects the digits, k counts
\* those behind the dot (-1 as long as no dot was met).
RECURSIVE StrtodFrom(_, _, _, _)
StrtodFrom(NumStr, i, m, k) ==
    IF i > Len(NumStr) THEN DecNorm(<<m, IF k < 0 THEN 0 ELSE k>>)
    ELSE IF NumStr[i] = "." THEN StrtodFrom(NumStr, i + 1, m, 0)
    ELSE StrtodFrom(NumStr, i + 1, 10 * m + DigitValue(NumStr[i]),
                    IF k < 0 THEN k ELSE k + 1)

Strtod(NumStr) == StrtodFrom(NumStr, 1, 0, -1)

\* do { LastChar = std::cin.get(); } while (LastChar != EOF && LastChar != '\n');
RECURSIVE SkipLine(_, _)
SkipLine(inp, lx) ==
    LET l1 == CinGet(inp, lx)
    IN  IF l1.LastChar # EOF /\ l1.LastChar # "\n" THEN SkipLine(inp, l1) ELSE l1

\* if (LastChar != EOF) LastChar = std::cin.get();   (LastChar is '\n')
SkipNewline(inp, lx) == IF lx.LastChar # EOF THEN CinGet(inp, lx) ELSE lx

\* The comment branch: the line is skipped and so is its newline.
SkipComment(inp, lx) ==
    IF lx.LastChar # "#" THEN lx ELSE SkipNewline(inp, SkipLine(inp, lx))

\* The switch on getTokPrecedence: OPERATOR1 .. OPERATOR10 for a registered
\* level, OPERATOR for any other answer.
OperatorToken(ThisChar, precedence) ==
    Token("OPERATOR", ThisChar, IF precedence \in 1 .. 10 THEN precedence ELSE 0)

\* The tail of yylex: the end of input, an operator character or any other
\* character.
CharToken(inp, lx, optab) ==
    IF lx.LastChar = EOF THEN [lx |-> lx, tok |-> Token("YYEOF", <<>>, 0)]
    ELSE IF lx.LastChar \in Operators
    THEN [lx |-> CinGet(inp, lx),
          tok |-> OperatorToken(lx.LastChar, getTokPrecedence(optab, lx.LastChar))]
    ELSE [lx |-> CinGet(inp, lx), tok |-> Token(lx.LastChar, lx.LastChar, 0)]

\* return parser::make_IDENTIFIER(Text), or the keyword Text spells.
IdentifierOf(s) == [lx |-> s.lx, tok |-> IdentifierToken(s.Text)]

\* return parser::make_NUMBER(strtod(NumStr.c_str(), NULL));
NumberOf(s) == [lx |-> s.lx, tok |-> Token("NUMBER", Strtod(s.NumStr), 0)]

\* yylex once the white space is skipped.
Scan(inp, lx, optab) ==
    IF lx.LastChar \in Alpha THEN IdentifierOf(ScanIdentifier(inp, lx, <<>>))
    ELSE IF lx.LastChar \in Digit \/ lx.LastChar = "."
    THEN NumberOf(ScanNumber(inp, lx, <<>>, FALSE))
    ELSE CharToken(inp, SkipComment(inp, lx), optab)

yylex(inp, lx, optab) ==
    Scan(inp, [SkipSpace(inp, lx) EXCEPT !.Restart = FALSE], optab)

\* parser::error, the message apart: the rest of the line is dropped.
RECURSIVE DropLine(_, _)
DropLine(inp, lx) ==
    IF lx.LastChar # EOF /\ lx.LastChar # "\n" THEN DropLine(inp, CinGet(inp, lx))
    ELSE lx

\* A recovery that drops the input up to and including the next ';'.
RECURSIVE DropStatement(_, _)
DropStatement(inp, lx) ==
    IF lx.LastChar = EOF THEN lx
    ELSE IF lx.LastChar = ";" THEN CinGet(inp, lx)
    ELSE DropStatement(inp, CinGet(inp, lx))

errorToTerminator(inp, lx) == [DropStatement(inp, lx) EXCEPT !.Restart = TRUE]

error(inp, lx) == [DropLine(inp, lx) EXCEPT !.Restart = TRUE]

(***************************************************************************)
(* The parser bison generates from the grammar, as the decisions its       *)
(* tables make: a token is read only where the next step depends on it     *)
(* (after a complete statement or prototype the rule is reduced first),    *)
(* and between reducing `Expr op Expr` and shifting the operator read      *)
(* next, the precedence levels decide.  A parse in progress is a record c: *)
(*   inp, lx   the character stream and the lexer's state                  *)
(*   optab     the OperatorTable                                           *)
(*   la        the token read ahead, NoToken when none is                  *)
(*   err       "none", "syntax" once a token no rule allows was read, or   *)
(*             "precedence" after the YYERROR of the precedence check      *)
(* An error skips every later step of the parse.  A symbol that has been   *)
(* parsed is a record of the parse after it (c) and its value (ast).  The  *)
(* operators named ...At take the parse with the next token read ahead.    *)
(***************************************************************************)
DefaultLevel == 0

AssignLevel == 2

UnaryLevel == 11

\* A grammar in which '=' stands between any two operands, at its level.
BinaryLevelAssign(tok) ==
    CASE tok.type = "=" -> 2
      [] tok.type = "<" -> 3
      [] tok.type \in {"+", "-"} -> 6
      [] tok.type = "*" -> 8
      [] tok.type = "OPERATOR" -> tok.level
      [] OTHER -> 0

\* The level the grammar declares for a token that stands between two
\* operands; 0 for a token that does not.
BinaryLevel(tok) ==
    CASE tok.type = "<" -> 3
      [] tok.type \in {"+", "-"} -> 6
      [] tok.type = "*" -> 8
      [] tok.type = "OPERATOR" -> tok.level
      [] OTHER -> 0

\* The levels declared %right: the operator read ahead is shifted at equal
\* levels too.
ShiftsRight(tok, level) == BinaryLevel(tok) > 0 /\ BinaryLevel(tok) >= level

\* All levels are %left: the operator read ahead is shifted when its level
\* is above the level of the rule that could be reduced, else the rule is
\* reduced.
Shifts(tok, level) == BinaryLevel(tok) > level

Failing(c) == c.err # "none"

\* The token yylex returned becomes the token read ahead.
Lookahead(c, r) == [c EXCEPT !.lx = r.lx, !.la = r.tok]

Peek(c) ==
    IF Failing(c) \/ c.la.type # "none" THEN c
    ELSE Lookahead(c, yylex(c.inp, c.lx, c.optab))

Shift(c) == IF Failing(c) THEN c ELSE [c EXCEPT !.la = NoToken]

\* The token read ahead is of this type.
Next(c, type) == ~Failing(c) /\ c.la.type = type

SyntaxError(c) == IF Failing(c) THEN c ELSE [c EXCEPT !.err = "syntax"]

\* The token read ahead is to be of this type and is shifted.
Accept(c, type) == IF Next(c, type) THEN Shift(c) ELSE SyntaxError(c)

\* The next token is to be of this type and is shifted.
Expect(c, type) == Accept(Peek(c), type)

Parsed(c, ast) == [c |-> c, ast |-> ast]

\* The symbol parsed is to be followed by a token of this type.
Closing(r, type) == Parsed(Expect(r.c, type), r.ast)

RECURSIVE ParseExpr(_, _)
RECURSIVE ParseExprList(_, _)
RECURSIVE ParseVarDefs(_, _)

\* ExprList: Expr | ExprList ',' Expr
ExprListAt(c, Args) ==
    IF Next(c, ",") THEN ParseExprList(Shift(c), Args) ELSE Parsed(c, Args)

ExprListWith(e, Args) == ExprListAt(Peek(e.c), Append(Args, e.ast))

ParseExprList(c, Args) == ExprListWith(ParseExpr(c, DefaultLevel), Args)

\* OptionalExprList ')' after `IDENTIFIER (`.
CallArgsAt(c) ==
    IF Next(c, ")") THEN Parsed(Shift(c), <<>>)
    ELSE Closing(ParseExprList(c, <<>>), ")")

CallOf(Callee, a) == Parsed(a.c, <<"CallExpr", Callee, a.ast>>)

AssignOf(Name, RHS) ==
    Parsed(RHS.c, <<"BinaryExpr", "=", <<"Variable", Name>>, RHS.ast>>)

\* The alternatives of Expr that start with IDENTIFIER, the identifier
\* shifted.
IdentifierAt(c, Name) ==
    IF Next(c, "(") THEN CallOf(Name, CallArgsAt(Peek(Shift(c))))
    ELSE IF Next(c, "=") THEN AssignOf(Name, ParseExpr(Shift(c), AssignLevel))
    ELSE Parsed(c, <<"Variable", Name>>)

\* IF Expr THEN Expr ELSE Expr, IF shifted.
IfOf(Cond, Then, Else) ==
    Parsed(Else.c, <<"IfExpr", Cond.ast, Then.ast, Else.ast>>)

\* An else branch that ends at the first binary operator.
IfElseOperand(Cond, Then) ==
    IfOf(Cond, Then, ParseExpr(Expect(Then.c, "ELSE"), UnaryLevel))

IfElse(Cond, Then) ==
    IfOf(Cond, Then, ParseExpr(Expect(Then.c, "ELSE"), DefaultLevel))

IfThen(Cond) == IfElse(Cond, ParseExpr(Expect(Cond.c, "THEN"), DefaultLevel))

ParseIf(c) == IfThen(ParseExpr(c, DefaultLevel))

\* FOR IDENTIFIER '=' Expr ',' Expr [',' Expr] IN Expr, FOR shifted.
ForOf(VarName, Init, Cond, Step, Body) ==
    Parsed(Body.c, <<"ForExpr", VarName, Init.ast, Cond.ast, Step.ast, Body.ast>>)

ForBody(VarName, Init, Cond, Step) ==
    ForOf(VarName, Init, Cond, Step,
          ParseExpr(Expect(Step.c, "IN"), DefaultLevel))

ForStepAt(VarName, Init, Cond, c) ==
    ForBody(VarName, Init, Cond,
            IF Next(c, ",") THEN ParseExpr(Shift(c), DefaultLevel)
            ELSE Parsed(c, NoExpr))

ForStep(VarName, Init, Cond) == ForStepAt(VarName, Init, Cond, Peek(Cond.c))

ForCond(VarName, Init) ==
    ForStep(VarName, Init, ParseExpr(Expect(Init.c, ","), DefaultLevel))

ForAt(c) ==
    ForCond(c.la.val,
            ParseExpr(Expect(Accept(c, "IDENTIFIER"), "="), DefaultLevel))

ParseFor(c) == ForAt(Peek(c))

\* VarDef: IDENTIFIER | IDENTIFIER '=' Expr
VarDefOf(VarName, Init) == Parsed(Init.c, <<VarName, Init.ast>>)

VarDefInitAt(VarName, c) ==
    IF Next(c, "=") THEN VarDefOf(VarName, ParseExpr(Shift(c), DefaultLevel))
    ELSE Parsed(c, <<VarName, NoExpr>>)

VarDefAt(c) == VarDefInitAt(c.la.val, Peek(Accept(c, "IDENTIFIER")))

ParseVarDef(c) == VarDefAt(Peek(c))

\* VarDefs: VarDef | VarDefs ',' VarDef
VarDefsAt(c, VarDefs) ==
    IF Next(c, ",") THEN ParseVarDefs(Shift(c), VarDefs) ELSE Parsed(c, VarDefs)

VarDefsWith(d, VarDefs) == VarDefsAt(Peek(d.c), Append(VarDefs, d.ast))

ParseVarDefs(c, VarDefs) == VarDefsWith(ParseVarDef(c), VarDefs)

\* VAR VarDefs IN Expr, VAR shifted.
VarOf(VarDefs, Body) == Parsed(Body.c, <<"VarExpr", VarDefs, Body.ast>>)

VarBody(d) == VarOf(d.ast, ParseExpr(Expect(d.c, "IN"), DefaultLevel))

ParseVar(c) == VarBody(ParseVarDefs(c, <<>>))

UnaryOf(Opcode, Operand) ==
    Parsed(Operand.c, <<"UnaryExpr", Opcode, Operand.ast>>)

\* The alternatives of Expr that do not start with an Expr.
OperandAt(c) ==
    IF Failing(c) THEN Parsed(c, NoExpr)
    ELSE CASE c.la.type = "NUMBER" -> Parsed(Shift(c), <<"Constant", c.la.val>>)
           [] c.la.type = "IDENTIFIER" -> IdentifierAt(Peek(Shift(c)), c.la.val)
           [] c.la.type = "(" -> Closing(ParseExpr(Shift(c), DefaultLevel), ")")
           [] c.la.type = "OPERATOR" ->
                 UnaryOf(c.la.val, ParseExpr(Shift(c), UnaryLevel))
           [] c.la.type = "IF" -> ParseIf(Shift(c))
           [] c.la.type = "FOR" -> ParseFor(Shift(c))
           [] c.la.type = "VAR" -> ParseVar(Shift(c))
           [] OTHER -> Parsed(SyntaxError(c), NoExpr)

ParseOperand(c) == OperandAt(Peek(c))

\* With LHS parsed as the operand of a rule of this level: the operators
\* that follow, as long as they are shifted.
RECURSIVE ParseBinary(_, _)
BinaryOf(Opcode, LHS, RHS, level) ==
    ParseBinary(Parsed(RHS.c, <<"BinaryExpr", Opcode, LHS, RHS.ast>>), level)

BinaryAt(c, LHS, level) ==
    IF Failing(c) \/ ~Shifts(c.la, level) THEN Parsed(c, LHS)
    ELSE BinaryOf(c.la.val, LHS, ParseExpr(Shift(c), BinaryLevel(c.la)), level)

ParseBinary(l, level) == BinaryAt(Peek(l.c), l.ast, level)

\* An Expr that is the last symbol of a rule of this level.
ParseExpr(c, level) == ParseBinary(ParseOperand(c), level)

\* ParameterList ')' after `IDENTIFIER (`.
RECURSIVE ParseParameters(_, _)
ParametersAt(c, Params) ==
    IF Next(c, "IDENTIFIER")
    THEN ParseParameters(Shift(c), Append(Params, c.la.val))
    ELSE Parsed(Accept(c, ")"), Params)

ParseParameters(c, Params) == ParametersAt(Peek(c), Params)

\* The n names of '(' IDENTIFIER ')' and '(' IDENTIFIER IDENTIFIER ')'.
RECURSIVE OperandNames(_, _, _)
OperandNameAt(c, n, Params) ==
    OperandNames(Accept(c, "IDENTIFIER"), n - 1, Append(Params, c.la.val))

OperandNames(c, n, Params) ==
    IF n = 0 THEN Parsed(Expect(c, ")"), Params)
    ELSE OperandNameAt(Peek(c), n, Params)

ParseOperands(c, n) == OperandNames(Expect(c, "("), n, <<>>)

PrototypeOf(Name, p) == Parsed(p.c, <<"Prototype", Name, p.ast>>)

\* UNARY Operator '(' IDENTIFIER ')', UNARY shifted.  Operator is any of
\* OPERATOR, OPERATOR1 .. OPERATOR10.
UnaryPrototypeAt(c) ==
    PrototypeOf(UnaryPrefix \o <<c.la.val>>,
                ParseOperands(Accept(c, "OPERATOR"), 1))

\* The action of the rules for BINARY run with the first token of the body
\* already read ahead.
BinaryPrototypeAhead(Operator, Precedence, p) ==
    IF Failing(p.c) THEN Parsed(p.c, NoExpr)
    ELSE IF Precedence < 1 \/ Precedence > 10
    THEN Parsed([p.c EXCEPT !.err = "precedence"], NoExpr)
    ELSE PrototypeOf(BinaryPrefix \o <<Operator>>,
                     Parsed([Peek(p.c) EXCEPT !.optab = OperatorDefine(@, Operator, Precedence)],
                            p.ast))

\* The action of the rules for BINARY once the ')' is shifted: no token is
\* read before it.  A precedence outside 1..10 calls error and leaves the
\* rule by YYERROR.
BinaryPrototype(Operator, Precedence, p) ==
    IF Failing(p.c) THEN Parsed(p.c, NoExpr)
    ELSE IF Precedence < 1 \/ Precedence > 10
    THEN Parsed([p.c EXCEPT !.err = "precedence"], NoExpr)
    ELSE PrototypeOf(BinaryPrefix \o <<Operator>>,
                     Parsed([p.c EXCEPT !.optab = OperatorDefine(@, Operator, Precedence)],
                            p.ast))

\* static_cast<unsigned> of a NUMBER.
Unsigned(d) == d[1] \div Pow10(d[2])

\* BINARY Operator '(' IDENTIFIER IDENTIFIER ')' with the precedence 4, and
\* BINARY Operator NUMBER '(' IDENTIFIER IDENTIFIER ')'.
BinaryPrecedenceAt(Operator, c) ==
    IF Next(c, "NUMBER")
    THEN BinaryPrototype(Operator, Unsigned(c.la.val), ParseOperands(Shift(c), 2))
    ELSE BinaryPrototype(Operator, 4, ParseOperands(c, 2))

BinaryPrototypeAt(c) ==
    BinaryPrecedenceAt(c.la.val, Peek(Accept(c, "OPERATOR")))

PrototypeAt(c) ==
    IF Failing(c) THEN Parsed(c, NoExpr)
    ELSE CASE c.la.type = "IDENTIFIER" ->
                 PrototypeOf(c.la.val, ParseParameters(Expect(Shift(c), "("), <<>>))
           [] c.la.type = "UNARY" -> UnaryPrototypeAt(Peek(Shift(c)))
           [] c.la.type = "BINARY" -> BinaryPrototypeAt(Peek(Shift(c)))
           [] OTHER -> Parsed(SyntaxError(c), NoExpr)

ParsePrototype(c) == PrototypeAt(Peek(c))

\* The index of the first character the lexer has not consumed.
Unread(inp, lx) == IF lx.LastChar = EOF THEN Len(inp) + 1 ELSE lx.pos - 1

\* One Statement, from its first token to the reduction of its rule: kind is
\* the rule ("empty" for ';'), "eof" when the end of input is read in place
\* of a statement, "syntax" or "precedence" when error was called; at is the
\* index of the first character not consumed when error was called and tok
\* the type of the token read ahead then.
StatementOf(c, kind, ast) ==
    IF Failing(c)
    THEN [kind |-> c.err, ast |-> NoExpr, lx |-> error(c.inp, c.lx),
          optab |-> c.optab, at |-> Unread(c.inp, c.lx), tok |-> c.la.type]
    ELSE [kind |-> kind, ast |-> ast, lx |-> c.lx, optab |-> c.optab, at |-> 0,
          tok |-> "none"]

\* Statement: Expr ';' and, with its Prototype parsed, DEF Prototype Expr ';'
BodyStatement(kind, p, e) ==
    StatementOf(Expect(e.c, ";"), kind,
                IF kind = "def" THEN <<"Function", p.ast, e.ast>> ELSE e.ast)

\* The Expr of a statement, unless its Prototype is how the statement ends.
StatementBody(kind, p) ==
    IF kind = "extern" THEN StatementOf(Expect(p.c, ";"), kind, p.ast)
    ELSE BodyStatement(kind, p, ParseExpr(p.c, DefaultLevel))

\* EXTERN Prototype ';' and DEF Prototype Expr ';', the keyword shifted.
StatementPrototype(kind, c) == StatementBody(kind, ParsePrototype(c))

StatementAt(c) ==
    CASE c.la.type = "YYEOF" -> StatementOf(c, "eof", NoExpr)
      [] c.la.type = ";" -> StatementOf(Shift(c), "empty", NoExpr)
      [] c.la.type = "EXTERN" -> StatementPrototype("extern", Shift(c))
      [] c.la.type = "DEF" -> StatementPrototype("def", Shift(c))
      [] OTHER -> StatementBody("expr", Parsed(c, NoExpr))

ParseStatement(inp, lx, optab) ==
    StatementAt(Peek([inp |-> inp, lx |-> lx, optab |-> optab, la |-> NoToken,
                      err |-> "none"]))

\* static bool Restart = true; static int LastChar = ' ';
LexInit == [pos |-> 1, good |-> TRUE, LastChar |-> " ", Restart |-> TRUE]

NoFunc == [name |-> <<>>, suffix |-> 0, params |-> <<>>, blocks |-> <<>>]

NoLast == [kind |-> "none", stmt |-> NoExpr, err |-> "none", func |-> NoFunc,
           before |-> <<>>, depth |-> 0, at |-> 0, tok |-> "none", optab |-> <<>>,
           under |-> FALSE]

(***************************************************************************)
(* The SymbolTable driven by well-nested calls.                            *)
(***************************************************************************)
Snapshot(sym) == [n \in Names |-> lookup(sym, n)]

SymInit ==
    /\ Symtab = SymbolTableInit
    /\ saved = <<>>
    /\ lastOp = "init"
    /\ restored = [n \in Names |-> Null]
    /\ reshadowed = FALSE
    /\ Module = <<>>
    /\ status = "parsing"
    /\ nstmt = 0
    /\ last = NoLast
    /\ cin = <<>>
    /\ lex = LexInit
    /\ Optab = <<>>
    /\ reported = 0

EnterScope ==
    /\ Symtab.Depth < MaxDepth
    /\ Symtab' = enterScope(Symtab)
    /\ saved' = Append(saved, Snapshot(Symtab))
    /\ lastOp' = "enterScope"
    /\ UNCHANGED <<restored, reshadowed>>
    /\ UNCHANGED <<lowVars, replVars>>

\* Well-nested: a leaveScope matches an enterScope still open.
LeaveScope ==
    /\ saved # <<>>
    /\ Symtab' = leaveScope(Symtab)
    /\ saved' = SubSeq(saved, 1, Len(saved) - 1)
    /\ restored' = saved[Len(saved)]
    /\ reshadowed' =
          \E n \in Names :
              /\ saved[Len(saved)][n] # Null
              /\ Cardinality({i \in Len(Symtab'.Values) + 1 .. Len(Symtab.Values) :
                                 Symtab.Values[i].Name = n}) >= 2
    /\ lastOp' = "leaveScope"
    /\ UNCHANGED <<lowVars, replVars>>

Define ==
    /\ Len(Symtab.Values) < MaxValues
    /\ \E n \in Names, v \in Storages :
          Symtab' = define(Symtab, n, v)
    /\ lastOp' = "define"
    /\ UNCHANGED <<saved, restored, reshadowed>>
    /\ UNCHANGED <<lowVars, replVars>>

SymNext == EnterScope \/ LeaveScope \/ Define

SpecSym == SymInit /\ [][SymNext]_vars

(***************************************************************************)
(* The statements of a session lowered one after the other: the actions of *)
(* the grammar's Statement rule (src/unnamed/part_001, lines 216-240) run  *)
(* from main (src/Kaleidoscope.cc, lines 332-340).  The parser catches no  *)
(* std::runtime_error and main has no handler, so an exception thrown by   *)
(* a codegen method leaves main and ends the process.                      *)
(***************************************************************************)
Num(n) == <<"Constant", <<n, 0>>>>

Var(n) == <<"Variable", n>>

Bin(op, l, r) == <<"BinaryExpr", op, l, r>>

Call(n, args) == <<"CallExpr", n, args>>

If(c, t, e) == <<"IfExpr", c, t, e>>

For(v, init, cond, step, body) == <<"ForExpr", v, init, cond, step, body>>

VarIn(defs, body) == <<"VarExpr", defs, body>>

Proto(n, params) == <<"Prototype", n, params>>

nX == <<"x">>
nY == <<"y">>
nI == <<"i">>
nA == <<"a">>
nB == <<"b">>
nF == <<"f">>
nG == <<"g">>
nId == <<"i", "d">>
nFoo == <<"f", "o", "o">>
nZz == <<"z", "z">>
nH == <<"h">>
nK == <<"k">>
nV == <<"v">>

AnonExpr == <<"_", "_", "a", "n", "o", "n", "_", "e", "x", "p", "r">>

ForExprs ==
    { For(nI, Num(1), Bin("<", Var(nI), Num(1)), NoExpr, Call(nF, <<>>)),
      For(nI, Num(1), Bin("<", Var(nI), Num(1)), NoExpr,
          Bin("=", Var(nI), Bin("+", Var(nI), Num(5)))),
      For(nI, Num(0), Bin("<", Var(nI), Num(2)), NoExpr, Call(nF, <<>>)),
      For(nI, Num(0), Bin("<", Var(nI), Num(4)), Num(2), Call(nF, <<>>)),
      For(nI, Num(1), Num(0), NoExpr, Num(99)) }

VarExprs ==
    { VarIn(<< <<nX, Num(5)>> >>,
            VarIn(<< <<nX, Bin("+", Var(nX), Num(1))>> >>, Var(nX))),
      VarIn(<< <<nX, Num(1)>>, <<nY, Bin("+", Var(nX), Num(1))>> >>, Var(nY)),
      VarIn(<< <<nX, NoExpr>> >>, Var(nX)),
      VarIn(<< <<nX, Var(nX)>> >>, Var(nX)),
      VarIn(<< <<nX, Var(nY)>>, <<nY, Num(1)>> >>, Var(nX)),
      VarIn(<< <<nX, Num(2)>> >>,
            VarIn(<< <<nX, Num(3)>>, <<nY, Var(nX)>> >>, Var(nY))),
      VarIn(<< <<nX, Num(2)>> >>,
            VarIn(<< <<nY, Var(nX)>>, <<nX, Num(7)>> >>, Bin("*", Var(nY), Var(nX)))) }

CallExprs ==
    { Call(nFoo, <<Num(1)>>),
      Call(nId, <<Num(1), Num(2)>>),
      Call(nFoo, <<Var(nZz)>>),
      Call(nId, <<Var(nZz), Call(nFoo, <<Num(1)>>)>>),
      Call(nId, <<Num(1)>>),
      Call(nId, <<>>),
      Call(nId, <<Var(nZz)>>),
      Call(nG, <<Call(nId, <<Num(1)>>), Call(nId, <<Num(2)>>)>>),
      Call(nG, <<Call(nFoo, <<>>), Var(nZz)>>) }

\* `var x = 1 in x + (x = 5)`
LoadPlusStore == VarIn(<< <<nX, Num(1)>> >>, Bin("+", Var(nX), Bin("=", Var(nX), Num(5))))

\* `zz + h()`, neither zz nor h known.
UnknownPlusUnknown == Bin("+", Var(nZz), Call(nH, <<>>))

BinaryExprs == {LoadPlusStore, UnknownPlusUnknown}

\* `var x = 1 in x = 5`, `zz = 5`, `var x = 1 in var x = 2 in x = 5` and
\* `var x = 1 in (x = 5) + x`.
AssignExprs ==
    { VarIn(<< <<nX, Num(1)>> >>, Bin("=", Var(nX), Num(5))),
      Bin("=", Var(nZz), Num(5)),
      VarIn(<< <<nX, Num(1)>> >>,
            VarIn(<< <<nX, Num(2)>> >>, Bin("=", Var(nX), Num(5)))),
      VarIn(<< <<nX, Num(1)>> >>, Bin("+", Bin("=", Var(nX), Num(5)), Var(nX))) }

\* `for i = i, 0 in 99` and `var i = 3 in for i = i, 0 in 99`.
ForInitExprs ==
    { For(nI, Var(nI), Num(0), NoExpr, Num(99)),
      VarIn(<< <<nI, Num(3)>> >>, For(nI, Var(nI), Num(0), NoExpr, Num(99))) }

\* `if 1 then 2 else 3`, `if 0 then 2 else 3`,
\* `var x in if x then x = 2 else x = 3`,
\* `if 1 then if 0 then 5 else 6 else 7` and
\* `if 0 then 2 else for i = 1, 0 in 99`.
IfExprs ==
    { If(Num(1), Num(2), Num(3)),
      If(Num(0), Num(2), Num(3)),
      VarIn(<< <<nX, NoExpr>> >>,
            If(Var(nX), Bin("=", Var(nX), Num(2)), Bin("=", Var(nX), Num(3)))),
      If(Num(1), If(Num(0), Num(5), Num(6)), Num(7)),
      If(Num(0), Num(2), For(nI, Num(1), Num(0), NoExpr, Num(99))) }

TopExprs ==
    ForExprs \cup VarExprs \cup CallExprs \cup {Var(nX), Num(4)}
    \cup BinaryExprs \cup AssignExprs \cup ForInitExprs \cup IfExprs

Externs == {Proto(nG, <<nA, nB>>), Proto(nId, <<nA>>)}

Defs ==
    { <<"Function", Proto(nF, <<>>), Num(7)>>,
      <<"Function", Proto(nId, <<nA>>), Var(nA)>>,
      <<"Function", Proto(nFoo, <<>>), Num(1)>>,
      <<"Function", Proto(nG, <<nA, nB>>), Bin("-", Var(nA), Var(nB))>>,
      <<"Function", Proto(nF, <<nA>>), Var(nB)>> }

\* The lowering state a statement's action starts from.
StartCg == [sym |-> Symtab, mod |-> Module, fn |-> 0, cur |-> 0, nid |-> 1,
            err |-> "none", under |-> FALSE]

\* ir->eraseFromParent().
EraseFromParent(mod, i) == SubSeq(mod, 1, i - 1) \o SubSeq(mod, i + 1, Len(mod))

\* An exception that leaves the statement's action leaves parse() and main.
AfterStatement(cg) == IF Thrown(cg) THEN "terminated" ELSE "parsing"

LowInit ==
    /\ Symtab = SymbolTableInit
    /\ Module = <<>>
    /\ status = "parsing"
    /\ nstmt = 0
    /\ last = NoLast
    /\ cin = <<>>
    /\ lex = LexInit
    /\ Optab = <<>>
    /\ reported = 0
    /\ saved = <<>>
    /\ lastOp = "init"
    /\ restored = [n \in Names |-> Null]
    /\ reshadowed = FALSE

Outcome(kind, stmt, cg, fi) ==
    [kind |-> kind, stmt |-> stmt, err |-> cg.err,
     func |-> IF fi = 0 THEN NoFunc ELSE cg.mod[fi],
     before |-> Module, depth |-> Symtab.Depth, at |-> 0, tok |-> "none",
     optab |-> Optab, under |-> cg.under]

\* Statement: Expr ';'
StatementExpr ==
    /\ status = "parsing" /\ nstmt < MaxStmts
    /\ \E e \in TopExprs :
          \E cg \in {FunctionCodegen(<<"Function", Proto(AnonExpr, <<>>), e>>, StartCg)} :
              /\ Module' = IF Thrown(cg) THEN cg.mod ELSE EraseFromParent(cg.mod, cg.fn)
              /\ Symtab' = cg.sym
              /\ status' = AfterStatement(cg)
              /\ last' = Outcome("expr", e, cg, Len(cg.mod))
    /\ nstmt' = nstmt + 1
    /\ UNCHANGED <<symHist, replVars>>

\* Statement: EXTERN Prototype ';'
StatementExtern ==
    /\ status = "parsing" /\ nstmt < MaxStmts
    /\ \E p \in Externs :
          \E r \in {PrototypeCodegen(p, StartCg)} :
              /\ Module' = r.cg.mod
              /\ Symtab' = r.cg.sym
              /\ status' = AfterStatement(r.cg)
              /\ last' = Outcome("extern", p, r.cg, r.func)
    /\ nstmt' = nstmt + 1
    /\ UNCHANGED <<symHist, replVars>>

\* Statement: DEF Prototype Expr ';'
StatementDef ==
    /\ status = "parsing" /\ nstmt < MaxStmts
    /\ \E d \in Defs :
          \E cg \in {FunctionCodegen(d, StartCg)} :
              /\ Module' = cg.mod
              /\ Symtab' = cg.sym
              /\ status' = AfterStatement(cg)
              /\ last' = Outcome("def", d, cg, Len(cg.mod))
    /\ nstmt' = nstmt + 1
    /\ UNCHANGED <<symHist, replVars>>

LowNext == StatementExpr \/ StatementExtern \/ StatementDef

SpecLower == LowInit /\ [][LowNext]_vars

(***************************************************************************)
(* Claims about the SymbolTable, checked under SpecSym.                    *)
(***************************************************************************)

\* C1: immediately after a leaveScope that matches an enterScope, lookup of
\* every name returns what it returned immediately before that enterScope:
\* a name shadowed inside the scope (even several times) has its outer
\* storage again and a name defined only inside the scope is not found.
C1_ScopeRestore ==
    lastOp = "leaveScope" => \A n \in Names : lookup(Symtab, n) = restored[n]

\* A leaveScope has just removed two or more bindings of a name that shadowed
\* an outer binding, and another name defined only inside the scope.
C1_Witness ==
    /\ lastOp = "leaveScope"
    /\ reshadowed
    /\ \E n \in Names : restored[n] # Null /\ lookup(Symtab, n) = restored[n]

LiveBindings(n) == {i \in 1 .. Len(Symtab.Values) : Symtab.Values[i].Name = n}

\* The live binding of n with the greatest definition depth, the most recently
\* defined one among those of that depth.
Innermost(n) ==
    CHOOSE i \in LiveBindings(n) :
        \A j \in LiveBindings(n) :
            \/ Symtab.Values[j].Depth < Symtab.Values[i].Depth
            \/ Symtab.Values[j].Depth = Symtab.Values[i].Depth /\ j <= i

\* C2: in every state reached by well-nested calls, lookup(name) returns the
\* storage of the live binding of name with the greatest definition depth (the
\* most recently defined one when several share it), and not-found exactly
\* when no binding of name is live.
C2_InnermostBinding ==
    \A n \in Names :
        IF LiveBindings(n) = {}
        THEN lookup(Symtab, n) = Null
        ELSE lookup(Symtab, n) = Symtab.Values[Innermost(n)].Value

\* A name with live bindings at two depths, two of them at the greater depth,
\* with different storage.
C2_Witness ==
    \E n \in Names : \E i, j, k \in LiveBindings(n) :
        /\ i < j /\ j < k
        /\ Symtab.Values[i].Depth < Symtab.Values[j].Depth
        /\ Symtab.Values[j].Depth = Symtab.Values[k].Depth
        /\ Symtab.Values[j].Value # Symtab.Values[k].Value
        /\ Symtab.Values[i].Value # Symtab.Values[k].Value
        /\ lookup(Symtab, n) = Symtab.Values[k].Value

(***************************************************************************)
(* The driver: main calls parser.parse() as long as std::cin is good, and  *)
(* a call of parse reads statement after statement, running the action of  *)
(* each, until the end of input is read (parse returns 0) or error was     *)
(* called (parse returns 1).  No exception is caught, neither by the       *)
(* actions nor by parse nor by main.  The character streams a session may  *)
(* be given:                                                               *)
(***************************************************************************)
\* `x;\n4;\n`
InUnknownVariable ==
    <<"x", ";", "\n", "4", ";", "\n">>

\* `foo(1);\n4;\n`
InUnknownFunction ==
    <<"f", "o", "o", "(", "1", ")", ";", "\n", "4", ";", "\n">>

\* `def id(a) a;\nid(1, 2);\n4;\n`
InArityMismatch ==
    <<"d", "e", "f", " ", "i", "d", "(", "a", ")", " ", "a", ";", "\n",
      "i", "d", "(", "1", ",", " ", "2", ")", ";", "\n", "4", ";", "\n">>

\* `!1;\n4;\n`
InUnknownOperator ==
    <<"!", "1", ";", "\n", "4", ";", "\n">>

\* `(1+2) = 3;\n4;\n`
InAssignSum ==
    <<"(", "1", "+", "2", ")", " ", "=", " ", "3", ";", "\n", "4", ";",
      "\n">>

\* `1 = 2;\n`
InAssignNumber ==
    <<"1", " ", "=", " ", "2", ";", "\n">>

\* `(x) = 3; 4;\n5;\n`
InAssignParen ==
    <<"(", "x", ")", " ", "=", " ", "3", ";", " ", "4", ";", "\n", "5",
      ";", "\n">>

\* `extern g(a b);\ng(1, 2) = 3;\n`
InAssignCall ==
    <<"e", "x", "t", "e", "r", "n", " ", "g", "(", "a", " ", "b", ")",
      ";", "\n", "g", "(", "1", ",", " ", "2", ")", " ", "=", " ", "3",
      ";", "\n">>

\* `1 2; 3;\n4;\n`
InErrorSameLine ==
    <<"1", " ", "2", ";", " ", "3", ";", "\n", "4", ";", "\n">>

\* `1 +\n* 2;\n3;\n`
InErrorNextLine ==
    <<"1", " ", "+", "\n", "*", " ", "2", ";", "\n", "3", ";", "\n">>

\* `1 2\n3;\n4;\n`
InErrorBeforeNewline ==
    <<"1", " ", "2", "\n", "3", ";", "\n", "4", ";", "\n">>

\* `4 4`
InErrorAtEnd ==
    <<"4", " ", "4">>

\* `) ;\n7;\n`
InErrorParen ==
    <<")", " ", ";", "\n", "7", ";", "\n">>

\* `def f(a;\nf(1);\n`
InErrorInDef ==
    <<"d", "e", "f", " ", "f", "(", "a", ";", "\n", "f", "(", "1", ")",
      ";", "\n">>

\* `def binary| 0 (a b) a;\n4;\n`
InBadPrecedence ==
    <<"d", "e", "f", " ", "b", "i", "n", "a", "r", "y", "|", " ", "0",
      " ", "(", "a", " ", "b", ")", " ", "a", ";", "\n", "4", ";", "\n">>

\* `4;\n`
InNumber ==
    <<"4", ";", "\n">>

\* `def f() 7;\nf();\n`
InDefAndCall ==
    <<"d", "e", "f", " ", "f", "(", ")", " ", "7", ";", "\n", "f", "(",
      ")", ";", "\n">>

\* `extern g(a b);\n;\n`
InExtern ==
    <<"e", "x", "t", "e", "r", "n", " ", "g", "(", "a", " ", "b", ")",
      ";", "\n", ";", "\n">>

\* `1.5 + 2;`
InFraction ==
    <<"1", ".", "5", " ", "+", " ", "2", ";">>

\* `var x = 1 in x = x + 2;\n`
InAssign ==
    <<"v", "a", "r", " ", "x", " ", "=", " ", "1", " ", "i", "n", " ",
      "x", " ", "=", " ", "x", " ", "+", " ", "2", ";", "\n">>

\* the empty stream
InEmpty ==
    <<>>

\* `def binary> 10 (a b) b < a;\n3 > 2;\n1 > 2;\n`
InUserBinary ==
    <<"d", "e", "f", " ", "b", "i", "n", "a", "r", "y", ">", " ", "1", "0",
      " ", "(", "a", " ", "b", ")", " ", "b", " ", "<", " ", "a", ";", "\n",
      "3", " ", ">", " ", "2", ";", "\n", "1", " ", ">", " ", "2", ";", "\n">>

\* `def binary| 5 (a b) a;\ndef binary| 0 (a b) b;\n1 | 2;\n`
InPrecedenceZeroAfter ==
    <<"d", "e", "f", " ", "b", "i", "n", "a", "r", "y", "|", " ", "5", " ",
      "(", "a", " ", "b", ")", " ", "a", ";", "\n", "d", "e", "f", " ", "b",
      "i", "n", "a", "r", "y", "|", " ", "0", " ", "(", "a", " ", "b", ")",
      " ", "b", ";", "\n", "1", " ", "|", " ", "2", ";", "\n">>

\* `def binary& 11 (a b) a;\n1 & 2;\n`
InPrecedenceEleven ==
    <<"d", "e", "f", " ", "b", "i", "n", "a", "r", "y", "&", " ", "1", "1",
      " ", "(", "a", " ", "b", ")", " ", "a", ";", "\n", "1", " ", "&", " ",
      "2", ";", "\n">>

\* `def binary| 10.5 (a b) a;\n1 | 2;\n`
InPrecedenceFraction ==
    <<"d", "e", "f", " ", "b", "i", "n", "a", "r", "y", "|", " ", "1", "0",
      ".", "5", " ", "(", "a", " ", "b", ")", " ", "a", ";", "\n", "1", " ",
      "|", " ", "2", ";", "\n">>

\* `def binary| 5 (a b) a | b;\n1 | 2;\n`
InOperatorInOwnBody ==
    <<"d", "e", "f", " ", "b", "i", "n", "a", "r", "y", "|", " ", "5", " ",
      "(", "a", " ", "b", ")", " ", "a", " ", "|", " ", "b", ";", "\n", "1",
      " ", "|", " ", "2", ";", "\n">>

\* `def unary| (a) a;\ndef binary| 5 (a b) | a;\n`
InOperatorLeadsBody ==
    <<"d", "e", "f", " ", "u", "n", "a", "r", "y", "|", " ", "(", "a", ")",
      " ", "a", ";", "\n", "d", "e", "f", " ", "b", "i", "n", "a", "r", "y",
      "|", " ", "5", " ", "(", "a", " ", "b", ")", " ", "|", " ", "a", ";",
      "\n">>

\* `def binary| 10 (a b) a;\ndef binary| 1 (a b) a | b + a;\n`
InRedeclared ==
    <<"d", "e", "f", " ", "b", "i", "n", "a", "r", "y", "|", " ", "1", "0",
      " ", "(", "a", " ", "b", ")", " ", "a", ";", "\n", "d", "e", "f", " ",
      "b", "i", "n", "a", "r", "y", "|", " ", "1", " ", "(", "a", " ", "b",
      ")", " ", "a", " ", "|", " ", "b", " ", "+", " ", "a", ";", "\n">>

\* `def binary| 5 (a b) a b;\n1 | 2;\n`
InSyntaxAfterPrototype ==
    <<"d", "e", "f", " ", "b", "i", "n", "a", "r", "y", "|", " ", "5", " ",
      "(", "a", " ", "b", ")", " ", "a", " ", "b", ";", "\n", "1", " ", "|",
      " ", "2", ";", "\n">>

\* `def binary| 5 (a b) c;\n1 | 2;\n`
InSemanticAfterPrototype ==
    <<"d", "e", "f", " ", "b", "i", "n", "a", "r", "y", "|", " ", "5", " ",
      "(", "a", " ", "b", ")", " ", "c", ";", "\n", "1", " ", "|", " ", "2",
      ";", "\n">>

\* `# c\n4;\n`
InCommentThenNumber ==
    <<"#", " ", "c", "\n", "4", ";", "\n">>

\* `4; # c\n`
InCommentAtEnd ==
    <<"4", ";", " ", "#", " ", "c", "\n">>

\* `1 # c\n+ 2;\n`
InCommentThenOperator ==
    <<"1", " ", "#", " ", "c", "\n", "+", " ", "2", ";", "\n">>

\* `4 # a\n# b\n;\n`
InCommentThenComment ==
    <<"4", " ", "#", " ", "a", "\n", "#", " ", "b", "\n", ";", "\n">>

\* `4 # c\n ;\n`
InCommentThenSpace ==
    <<"4", " ", "#", " ", "c", "\n", " ", ";", "\n">>

\* `def binary. 5 (a b) a;\n1 . 2;\n`
InDotOperator ==
    <<"d", "e", "f", " ", "b", "i", "n", "a", "r", "y", ".", " ", "5", " ",
      "(", "a", " ", "b", ")", " ", "a", ";", "\n", "1", " ", ".", " ", "2",
      ";", "\n">>

\* `1.2.3;\n`
InTwoDots ==
    <<"1", ".", "2", ".", "3", ";", "\n">>

\* `4;\nx`
InEndsInIdentifier ==
    <<"4", ";", "\n", "x">>

\* `4;\n1 +`
InIncompleteLast ==
    <<"4", ";", "\n", "1", " ", "+">>

OtherInputs ==
    {InUnknownVariable, InUnknownFunction, InArityMismatch,
     InUnknownOperator, InAssignSum, InAssignNumber, InAssignParen,
     InAssignCall, InErrorSameLine, InErrorNextLine, InErrorBeforeNewline,
     InErrorAtEnd, InErrorParen, InErrorInDef, InBadPrecedence, InNumber,
     InDefAndCall, InExtern, InFraction, InAssign, InEmpty, InUserBinary,
     InPrecedenceZeroAfter, InPrecedenceEleven, InPrecedenceFraction,
     InOperatorInOwnBody, InOperatorLeadsBody, InRedeclared,
     InSyntaxAfterPrototype, InSemanticAfterPrototype, InCommentThenNumber,
     InCommentAtEnd, InCommentThenOperator, InCommentThenComment,
     InCommentThenSpace, InDotOperator, InTwoDots, InEndsInIdentifier,
     InIncompleteLast}

\* The levels a binary operator may be registered at (the check of the
\* precedence in the rule for BINARY), and the built-in operators.
UserLevels == 1 .. 10

BuiltinOperators == {"<", "+", "-", "*"}

\* The operators a OP1 b OP2 c is parsed with: a built-in one, or a
\* character registered at level p by a `def binary` read before.
PrecOperators(symbol) ==
    [op : BuiltinOperators, p : {0}] \cup [op : {symbol}, p : UserLevels]

PrecCases ==
    {c \in [o1 : PrecOperators("|"), o2 : PrecOperators("|") \cup PrecOperators("&")] :
        c.o1.op = c.o2.op => c.o1.p = c.o2.p}

DecimalChars(n) ==
    IF n < 10 THEN <<DigitChars[n + 1]>>
    ELSE <<DigitChars[(n \div 10) + 1], DigitChars[(n % 10) + 1]>>

\* `def binary<op> <p> (a b) a;\n`, nothing for a built-in operator.
DefBinary(o) ==
    IF o.op \in BuiltinOperators THEN <<>>
    ELSE <<"d", "e", "f", " ", "b", "i", "n", "a", "r", "y", o.op, " ">>
         \o DecimalChars(o.p)
         \o <<" ", "(", "a", " ", "b", ")", " ", "a", ";", "\n">>

\* The definitions of the operators, then `1 <o1> 2 <o2> 3;\n`.
PrecInput(c) ==
    DefBinary(c.o1) \o (IF c.o2.op = c.o1.op THEN <<>> ELSE DefBinary(c.o2))
    \o <<"1", " ", c.o1.op, " ", "2", " ", c.o2.op, " ", "3", ";", "\n">>

\* The longest run of digits and dots a line starts with.
MaxNumber == 5

NumberChars == {"1", "."}

NumberRuns == UNION {[1 .. n -> NumberChars] : n \in 1 .. MaxNumber}

\* A line that starts with such a run: `<run>;\n`.
NumberInput(run) == run \o <<";", "\n">>

NumberInputs == {NumberInput(run) : run \in NumberRuns}

\* The control forms with a body `3 <op> 4`: `if 1 then 2 else 3 <op> 4;\n`,
\* `for i = 1, 0 in 3 <op> 4;\n` and `var v in 3 <op> 4;\n`, after the
\* definition of the operator.
ControlForms ==
    ("if" :> <<"i", "f", " ", "1", " ", "t", "h", "e", "n", " ", "2", " ",
               "e", "l", "s", "e", " ">>)
    @@ ("for" :> <<"f", "o", "r", " ", "i", " ", "=", " ", "1", ",", " ", "0",
                   " ", "i", "n", " ">>)
    @@ ("var" :> <<"v", "a", "r", " ", "v", " ", "i", "n", " ">>)

ControlCases == [form : DOMAIN ControlForms, o : PrecOperators("|")]

ControlInput(c) ==
    DefBinary(c.o) \o ControlForms[c.form]
    \o <<"3", " ", c.o.op, " ", "4", ";", "\n">>

ControlInputs == {ControlInput(c) : c \in ControlCases}

\* `var x in x = 1 <op> 2;\n` after the definition of the operator.
AssignInput(o) ==
    DefBinary(o)
    \o <<"v", "a", "r", " ", "x", " ", "i", "n", " ", "x", " ", "=", " ", "1",
         " ", o.op, " ", "2", ";", "\n">>

AssignInputs == {AssignInput(o) : o \in PrecOperators("|")}

Inputs ==
    OtherInputs \cup {PrecInput(c) : c \in PrecCases} \cup NumberInputs
    \cup ControlInputs \cup AssignInputs

ReplInit ==
    /\ cin \in Inputs
    /\ lex = LexInit
    /\ Optab = <<>>
    /\ reported = 0
    /\ Symtab = SymbolTableInit
    /\ Module = <<>>
    /\ status = "parsing"
    /\ nstmt = 0
    /\ last = NoLast
    /\ saved = <<>>
    /\ lastOp = "init"
    /\ restored = [n \in Names |-> Null]
    /\ reshadowed = FALSE

\* The statement the parser reads next.
NextStatement == ParseStatement(cin, lex, Optab)

\* StatementList: Statement { Restart = true; }, reached unless the
\* statement's action threw.
Reduced(lx, cg) == IF Thrown(cg) THEN lx ELSE [lx EXCEPT !.Restart = TRUE]

\* Statement: ';'
ReplEmpty ==
    /\ status = "parsing"
    /\ \E st \in {NextStatement} :
          /\ st.kind = "empty"
          /\ lex' = [st.lx EXCEPT !.Restart = TRUE]
          /\ Optab' = st.optab
          /\ last' = [NoLast EXCEPT !.kind = "empty", !.before = Module,
                                    !.optab = Optab]
    /\ nstmt' = nstmt + 1
    /\ UNCHANGED <<Symtab, Module, status, cin, reported, symHist>>

\* Statement: Expr ';'
ReplExpr ==
    /\ status = "parsing"
    /\ \E st \in {NextStatement} :
          /\ st.kind = "expr"
          /\ \E cg \in {FunctionCodegen(<<"Function", Proto(AnonExpr, <<>>), st.ast>>,
                                        StartCg)} :
                /\ Module' = IF Thrown(cg) THEN cg.mod
                             ELSE EraseFromParent(cg.mod, cg.fn)
                /\ Symtab' = cg.sym
                /\ status' = AfterStatement(cg)
                /\ last' = Outcome("expr", st.ast, cg, Len(cg.mod))
                /\ lex' = Reduced(st.lx, cg)
          /\ Optab' = st.optab
    /\ nstmt' = nstmt + 1
    /\ UNCHANGED <<cin, reported, symHist>>

\* Statement: EXTERN Prototype ';'
ReplExtern ==
    /\ status = "parsing"
    /\ \E st \in {NextStatement} :
          /\ st.kind = "extern"
          /\ \E r \in {PrototypeCodegen(st.ast, StartCg)} :
                /\ Module' = r.cg.mod
                /\ Symtab' = r.cg.sym
                /\ status' = AfterStatement(r.cg)
                /\ last' = Outcome("extern", st.ast, r.cg, r.func)
                /\ lex' = Reduced(st.lx, r.cg)
          /\ Optab' = st.optab
    /\ nstmt' = nstmt + 1
    /\ UNCHANGED <<cin, reported, symHist>>

\* Statement: DEF Prototype Expr ';'
ReplDef ==
    /\ status = "parsing"
    /\ \E st \in {NextStatement} :
          /\ st.kind = "def"
          /\ \E cg \in {FunctionCodegen(st.ast, StartCg)} :
                /\ Module' = cg.mod
                /\ Symtab' = cg.sym
                /\ status' = AfterStatement(cg)
                /\ last' = Outcome("def", st.ast, cg, Len(cg.mod))
                /\ lex' = Reduced(st.lx, cg)
          /\ Optab' = st.optab
    /\ nstmt' = nstmt + 1
    /\ UNCHANGED <<cin, reported, symHist>>

\* A token no rule allows, or the YYERROR of the precedence check: error
\* has been called, the grammar has no error rule, parse returns 1.
ReplSyntaxError ==
    /\ status = "parsing"
    /\ \E st \in {NextStatement} :
          /\ st.kind \in {"syntax", "precedence"}
          /\ lex' = st.lx
          /\ Optab' = st.optab
          /\ last' = [NoLast EXCEPT !.kind = st.kind, !.before = Module,
                                    !.at = st.at, !.tok = st.tok,
                                    !.optab = Optab]
    /\ reported' = reported + 1
    /\ status' = "returned"
    /\ UNCHANGED <<Symtab, Module, nstmt, cin, symHist>>

\* The end of input where a statement may start: parse returns 0.
ReplAccept ==
    /\ status = "parsing"
    /\ \E st \in {NextStatement} :
          /\ st.kind = "eof"
          /\ lex' = st.lx
          /\ Optab' = st.optab
          /\ last' = [NoLast EXCEPT !.kind = "eof", !.before = Module,
                                    !.optab = Optab]
    /\ status' = "returned"
    /\ UNCHANGED <<Symtab, Module, nstmt, cin, reported, symHist>>

\* do { parser.parse(); } while (std::cin);
MainLoop ==
    /\ status = "returned"
    /\ status' = IF lex.good THEN "parsing" ELSE "exited"
    /\ UNCHANGED <<Symtab, Module, nstmt, last, cin, lex, Optab, reported, symHist>>

ReplNext ==
    \/ ReplEmpty
    \/ ReplExpr
    \/ ReplExtern
    \/ ReplDef
    \/ ReplSyntaxError
    \/ ReplAccept
    \/ MainLoop

SpecRepl == ReplInit /\ [][ReplNext]_vars

(***************************************************************************)
(* The statement lowered last, run in the module it was lowered in.        *)
(***************************************************************************)
LastModule == Append(last.before, last.func)

LastRun == RunFn(LastModule, Len(LastModule), <<>>, ExecFuel)

LoweredExpr(stmts) == last.kind = "expr" /\ last.stmt \in stmts

FirstPos(trace, nm) ==
    IF \E i \in 1 .. Len(trace) : trace[i].nm = nm
    THEN CHOOSE i \in 1 .. Len(trace) :
            trace[i].nm = nm /\ \A j \in 1 .. i - 1 : trace[j].nm # nm
    ELSE 0

Count(trace, nm) == Cardinality({i \in 1 .. Len(trace) : trace[i].nm = nm})

(***************************************************************************)
(* What an expression without calls evaluates to under the scoping rules   *)
(* of the language: env maps the names in scope to their values, Unbound   *)
(* is the outcome of a reference to a name that is not in scope.           *)
(***************************************************************************)
Unbound == <<0, -2>>

RECURSIVE RefEval(_, _)
RECURSIVE RefDefs(_, _, _)
RefDefs(ds, i, env) ==
    IF i > Len(ds) THEN [ok |-> TRUE, env |-> env]
    ELSE LET v == IF ds[i][2] = NoExpr THEN <<0, 0>> ELSE RefEval(ds[i][2], env)
         IN  IF v = Unbound THEN [ok |-> FALSE, env |-> env]
             ELSE RefDefs(ds, i + 1, MapPut(env, ds[i][1], v))

RefEval(e, env) ==
    CASE e[1] = "Constant" -> e[2]
      [] e[1] = "Variable" -> IF e[2] \in DOMAIN env THEN env[e[2]] ELSE Unbound
      [] e[1] = "BinaryExpr" ->
            LET l == RefEval(e[3], env)
                r == RefEval(e[4], env)
            IN  IF l = Unbound \/ r = Unbound THEN Unbound
                ELSE (CASE e[2] = "+" -> DecAdd(l, r)
                        [] e[2] = "-" -> DecSub(l, r)
                        [] e[2] = "*" -> DecMul(l, r)
                        [] e[2] = "<" -> Bool(DecLt(l, r)))
      [] e[1] = "VarExpr" ->
            LET d == RefDefs(e[2], 1, env)
            IN  IF d.ok THEN RefEval(e[3], d.env) ELSE Unbound

\* The name of the instructions a loop body emits, "none" for a body that
\* emits no instruction.
BodyMark(e) ==
    CASE e[6][1] = "CallExpr" -> "calltmp"
      [] e[6][1] = "BinaryExpr" -> "addtmp"
      [] OTHER -> "none"

\* The continuation condition of a for-expression, evaluated with the loop
\* variable at its initial value.
CondOnEntry(e) == RefEval(e[4], MapPut(<<>>, e[2], RefEval(e[3], <<>>)))

\* C4: a lowered for-expression enters the block "Loop" by an unconditional
\* branch; when run, the body's instructions execute before the update
\* ("nextvar") and the update before the test of the condition ("cond"); the
\* body executes exactly once when the condition is false on entry; the
\* value of the for-expression is the constant 0.0.
C4_BodyBeforeCond ==
    (LoweredExpr(ForExprs) /\ last.err = "none") =>
        LET f == last.func
            entry == f.blocks[1].instrs
            r == LastRun
            mark == BodyMark(last.stmt)
        IN  /\ Len(f.blocks) >= 2
            /\ f.blocks[2].label = "Loop"
            /\ entry[Len(entry)] = Br(f.blocks[2].id)
            /\ r.ok
            /\ r.trace[Len(entry)] = Br(f.blocks[2].id)
            /\ r.trace[Len(entry) + 1] = f.blocks[2].instrs[1]
            /\ 0 < FirstPos(r.trace, "nextvar")
            /\ FirstPos(r.trace, "nextvar") < FirstPos(r.trace, "cond")
            /\ mark # "none" =>
                  /\ 0 < FirstPos(r.trace, mark)
                  /\ FirstPos(r.trace, mark) < FirstPos(r.trace, "nextvar")
                  /\ CondOnEntry(last.stmt) = <<0, 0>> => Count(r.trace, mark) = 1
            /\ r.trace[Len(r.trace)] = Instr("ret", 0, "ret", <<Zero>>)
            /\ r.val = <<0, 0>>

\* `for i = 1, i < 1 in f()` has been lowered and run: f was called once
\* although the condition was false on entry.
C4_Witness ==
    /\ LoweredExpr({For(nI, Num(1), Bin("<", Var(nI), Num(1)), NoExpr, Call(nF, <<>>))})
    /\ last.err = "none"
    /\ CondOnEntry(last.stmt) = <<0, 0>>
    /\ LastRun.ok
    /\ Count(LastRun.trace, "calltmp") = 1
    /\ FirstPos(LastRun.trace, "calltmp") < FirstPos(LastRun.trace, "cond")

\* C5: a var-expression evaluates as its defs taken in order, each
\* initializer evaluated with the names bound before its def (an outer scope
\* or an earlier def), a def without initializer bound to 0.0, the value
\* being the body's; an initializer that refers to its own or a later def
\* only is an unknown variable.  `var x = 5 in var x = x + 1 in x` is 6.
C5_VarExprScoping ==
    LoweredExpr(VarExprs) =>
        LET want == RefEval(last.stmt, <<>>)
        IN  /\ IF want = Unbound THEN last.err = "UnknownVariable"
               ELSE last.err = "none" /\ LastRun.ok /\ LastRun.val = want
            /\ last.stmt = VarIn(<< <<nX, Num(5)>> >>,
                                 VarIn(<< <<nX, Bin("+", Var(nX), Num(1))>> >>, Var(nX)))
                  => last.err = "none" /\ LastRun.val = <<6, 0>>

\* `var x = 5 in var x = x + 1 in x` has been lowered and evaluates to 6.
C5_Witness ==
    /\ LoweredExpr({VarIn(<< <<nX, Num(5)>> >>,
                          VarIn(<< <<nX, Bin("+", Var(nX), Num(1))>> >>, Var(nX)))})
    /\ last.err = "none"
    /\ LastRun.val = <<6, 0>>

(***************************************************************************)
(* What lowering a call at top level is to yield: the error, and the names *)
(* of the functions called by the instructions emitted before it, in       *)
(* order.  No variable is in scope at top level.                           *)
(***************************************************************************)
Declared(mod, Name) == \E i \in 1 .. Len(mod) : mod[i].name = Name /\ mod[i].suffix = 0

ParamCount(mod, Name) ==
    Len(mod[CHOOSE i \in 1 .. Len(mod) : mod[i].name = Name /\ mod[i].suffix = 0].params)

RECURSIVE RefCalls(_, _)
RECURSIVE RefArgs(_, _, _, _)
RefArgs(Args, i, mod, acc) ==
    IF i > Len(Args) THEN acc
    ELSE LET a == RefCalls(Args[i], mod)
             acc1 == [err |-> a.err, calls |-> acc.calls \o a.calls]
         IN  IF a.err # "none" THEN acc1 ELSE RefArgs(Args, i + 1, mod, acc1)

RefCalls(e, mod) ==
    CASE e[1] = "Constant" -> [err |-> "none", calls |-> <<>>]
      [] e[1] = "Variable" -> [err |-> "UnknownVariable", calls |-> <<>>]
      [] e[1] = "CallExpr" ->
            IF ~Declared(mod, e[2]) THEN [err |-> "UnknownFunction", calls |-> <<>>]
            ELSE IF ParamCount(mod, e[2]) # Len(e[3])
            THEN [err |-> "ArityMismatch", calls |-> <<>>]
            ELSE LET a == RefArgs(e[3], 1, mod, [err |-> "none", calls |-> <<>>])
                 IN  IF a.err # "none" THEN a
                     ELSE [err |-> "none", calls |-> Append(a.calls, e[2])]

IsCall(ins) == ins.op = "call"

CalleeNames(instrs) ==
    LET calls == SelectSeq(instrs, IsCall)
    IN  [i \in 1 .. Len(calls) |-> calls[i].callee[1]]

\* C6: a call of an undeclared name fails with UnknownFunction, a call with
\* a number of arguments other than the declared parameter count fails with
\* ArityMismatch, in both cases with no instruction emitted and whatever the
\* arguments are; otherwise the arguments are lowered left to right (the
\* first failing argument decides the error) and one call is emitted after
\* the instructions of the arguments.
C6_CallChecksFirst ==
    LoweredExpr(CallExprs) =>
        LET e == last.stmt
            instrs == last.func.blocks[1].instrs
            want == RefCalls(e, last.before)
        IN  /\ ~Declared(last.before, e[2]) =>
                  last.err = "UnknownFunction" /\ instrs = <<>>
            /\ Declared(last.before, e[2]) /\ ParamCount(last.before, e[2]) # Len(e[3]) =>
                  last.err = "ArityMismatch" /\ instrs = <<>>
            /\ last.err = want.err
            /\ CalleeNames(instrs) = want.calls
            /\ last.err = "none" =>
                  /\ Count(instrs, "calltmp") = Len(want.calls)
                  /\ instrs[Len(instrs) - 1].callee[1] = e[2]
                  /\ Len(instrs[Len(instrs) - 1].args) = Len(e[3])

\* id is declared with one parameter and `id(zz, foo(1))` has been lowered:
\* ArityMismatch, although both arguments would fail on their own.
C6_Witness ==
    /\ LoweredExpr({Call(nId, <<Var(nZz), Call(nFoo, <<Num(1)>>)>>)})
    /\ Declared(last.before, nId)
    /\ last.err = "ArityMismatch"
    /\ last.func.blocks[1].instrs = <<>>

HasBody(mod, Name) ==
    \E i \in 1 .. Len(mod) : mod[i].name = Name /\ mod[i].blocks # <<>>

\* C7: a def of a name that already has a body fails with
\* FunctionRedefinition, the module is left as it was (no second body, the
\* name still the first function's) and the SymbolTable depth is the one
\* before the statement.
C7_RedefinitionFails ==
    (last.kind = "def" /\ HasBody(last.before, last.stmt[2][2])) =>
        /\ last.err = "FunctionRedefinition"
        /\ Module = last.before
        /\ Symtab.Depth = last.depth

C7_Witness ==
    /\ last.kind = "def"
    /\ HasBody(last.before, last.stmt[2][2])
    /\ last.err = "none"
    /\ Len(Module) = Len(last.before) + 1

(***************************************************************************)
(* The sessions of the driver.                                             *)
(***************************************************************************)
\* The level of an operator of a case of PrecCases: the %left line of the
\* grammar a built-in operator is on, the level a user-defined one was
\* registered at.
LevelOf(o) ==
    CASE o.op = "<" -> 3
      [] o.op \in {"+", "-"} -> 6
      [] o.op = "*" -> 8
      [] OTHER -> o.p

LeftTree(c) == Bin(c.o2.op, Bin(c.o1.op, Num(1), Num(2)), Num(3))

RightTree(c) == Bin(c.o1.op, Num(1), Bin(c.o2.op, Num(2), Num(3)))

\* A statement has been handled: reduced, or ended by error.
Handled == last.kind \in {"empty", "expr", "extern", "def", "syntax", "precedence"}

\* C3: `1 OP1 2 OP2 3` is parsed without an error, as 1 OP1 (2 OP2 3) when
\* OP2 has the higher level and as (1 OP1 2) OP2 3 when OP1 has the higher
\* level or both have the same, for the built-in operators and for
\* operators registered at any level 1..10.
C3_PrecedenceGrouping ==
    \A c \in PrecCases :
        (cin = PrecInput(c) /\ Handled) =>
            /\ last.kind \in {"def", "expr"}
            /\ last.kind = "expr" =>
                  last.stmt = IF LevelOf(c.o2) > LevelOf(c.o1) THEN RightTree(c)
                              ELSE LeftTree(c)

C3_Witness ==
    \E c \in PrecCases :
        /\ cin = PrecInput(c)
        /\ c.o1.op = "|" /\ c.o2.op = "&"
        /\ "|" \in DOMAIN Optab /\ "&" \in DOMAIN Optab
        /\ Optab["|"] < Optab["&"]
        /\ last.kind = "expr"
        /\ last.stmt = Bin("|", Num(1), Bin("&", Num(2), Num(3)))

\* The sessions that assign to something that is not a variable, and in each
\* the index of the '=' of that assignment.
NonVariableAssignments == {InAssignSum, InAssignNumber, InAssignParen, InAssignCall}

AssignAt(inp) == CHOOSE i \in 1 .. Len(inp) :
                    inp[i] = "=" /\ \A j \in 1 .. i - 1 : inp[j] # "="

SemanticErrors ==
    {"UnknownVariable", "UnknownFunction", "ArityMismatch", "UnknownOperator"}

\* C9: a semantic error raised while a statement is lowered ends that
\* statement only; the driver goes on and the session does not terminate.
C9_SemanticErrorEndsStatementOnly ==
    last.err \in SemanticErrors => status # "terminated"

\* The index after the next ';' from index at on, the end of the stream when
\* there is none.
RECURSIVE AfterTerminator(_, _)
AfterTerminator(inp, at) ==
    IF at > Len(inp) THEN Len(inp) + 1
    ELSE IF inp[at] = ";" THEN at + 1
    ELSE AfterTerminator(inp, at + 1)

\* The index of the next newline from index at on, the end of the stream
\* when there is none.
RECURSIVE EndOfLine(_, _)
EndOfLine(inp, at) ==
    IF at > Len(inp) THEN Len(inp) + 1
    ELSE IF inp[at] = "\n" THEN at
    ELSE EndOfLine(inp, at + 1)

\* parse has returned from a syntax error.
AfterSyntaxError == last.kind \in {"syntax", "precedence"} /\ status = "returned"

LastCalls == SelectSeq(last.func.blocks[1].instrs, IsCall)

\* An expression statement `x OP y` of two numbers and a user-defined
\* operator has been lowered without an error.
UserBinaryLowered ==
    /\ last.kind = "expr"
    /\ last.err = "none"
    /\ last.stmt[1] = "BinaryExpr"
    /\ last.stmt[2] \in Operators
    /\ last.stmt[3][1] = "Constant"
    /\ last.stmt[4][1] = "Constant"

\* C11: once `def binary OP p (a b) body;` is processed, `x OP y` is parsed
\* as the BinaryExpr of OP, x and y and lowered to one call of "binary"+OP
\* with the value of x as first and the value of y as second argument; after
\* `def binary> 10 (a b) b < a;` the statement `3 > 2;` evaluates to 1.0 and
\* `1 > 2;` to 0.0.
C11_UserBinaryOperator ==
    /\ UserBinaryLowered =>
          /\ Len(LastCalls) = 1
          /\ LastCalls[1].callee = <<BinaryPrefix \o <<last.stmt[2]>>, 0>>
          /\ LastCalls[1].args = <<Const(last.stmt[3][2][1], last.stmt[3][2][2]),
                                   Const(last.stmt[4][2][1], last.stmt[4][2][2])>>
    /\ (cin = InUserBinary /\ Handled) =>
          /\ last.err = "none"
          /\ (nstmt = 1) => last.kind = "def"
          /\ (nstmt = 2) =>
                /\ last.kind = "expr"
                /\ last.stmt = Bin(">", Num(3), Num(2))
                /\ LastRun.ok
                /\ LastRun.val = <<1, 0>>
          /\ (nstmt = 3) =>
                /\ last.kind = "expr"
                /\ last.stmt = Bin(">", Num(1), Num(2))
                /\ LastRun.ok
                /\ LastRun.val = <<0, 0>>

C11_Witness ==
    /\ cin = InUserBinary
    /\ UserBinaryLowered
    /\ last.stmt = Bin(">", Num(3), Num(2))
    /\ LastCalls[1].args = <<Const(3, 0), Const(2, 0)>>
    /\ LastRun.val = <<1, 0>>

\* The sessions with a `binary` declaration whose precedence is not one of
\* 1..10, and which of the session's statements that declaration is.
BadPrecedenceAt ==
    (InBadPrecedence :> 1) @@ (InPrecedenceZeroAfter :> 2)
    @@ (InPrecedenceEleven :> 1) @@ (InPrecedenceFraction :> 1)

\* The statements handled so far, those ended by error included.
Events == nstmt + reported

\* C12: a `binary` declaration with a precedence that is 0 or outside 1..10
\* is rejected by the precedence check and leaves the OperatorTable as it
\* was before the declaration.
C12_InvalidPrecedenceRejected ==
    (cin \in DOMAIN BadPrecedenceAt /\ Events = BadPrecedenceAt[cin] /\ Handled) =>
        /\ last.kind = "precedence"
        /\ Optab = last.optab

\* Whenever the precedence check rejects a declaration, the OperatorTable
\* is the one before the declaration.
RejectionLeavesOperatorTable == last.kind = "precedence" => Optab = last.optab

\* The parser as it stands once DEF and the Prototype after it are parsed,
\* the first token of the body read ahead.
BodyAhead(inp, lx, optab) ==
    Peek(ParsePrototype(Shift(Peek([inp |-> inp, lx |-> lx, optab |-> optab,
                                    la |-> NoToken, err |-> "none"]))).c)

\* The n-th event of the session on this input is about to happen.
Handling(input, n) == cin = input /\ nstmt + reported = n - 1 /\ status = "parsing"

\* C13: a binary prototype updates the OperatorTable before the lexer
\* classifies the first token of the body, no token being read between the
\* ')' and the update: an operator that begins its own body is emitted with
\* the class just declared, and an operator used inside its body groups by
\* the precedence just declared, also when an earlier declaration gave it
\* another one.
C13_OperatorKnownInOwnBody ==
    [][(Handling(InOperatorLeadsBody, 2) =>
            /\ BodyAhead(cin, lex, Optab).la = Token("OPERATOR", "|", 5)
            /\ BodyAhead(cin, lex, Optab).optab = ("|" :> 5)
            /\ last'.kind = "def"
            /\ last'.stmt[3] = <<"UnaryExpr", "|", Var(<<"a">>)>>)
       /\ (Handling(InOperatorInOwnBody, 1) =>
            /\ last'.kind = "def" /\ last'.err = "none"
            /\ last'.stmt[3] = Bin("|", Var(<<"a">>), Var(<<"b">>)))
       /\ (Handling(InRedeclared, 2) =>
            /\ Optab = ("|" :> 10)
            /\ Optab' = ("|" :> 1)
            /\ last'.kind = "def" /\ last'.err = "none"
            /\ last'.stmt[3] = Bin("|", Var(<<"a">>),
                                   Bin("+", Var(<<"b">>), Var(<<"a">>))))]_vars

C13_Witness ==
    /\ cin = InOperatorLeadsBody /\ nstmt = 2 /\ last.kind = "def"
    /\ last.stmt[3][1] = "UnaryExpr" /\ Optab = ("|" :> 5)

\* C14: a symbol registered by a binary declaration stays registered for
\* the rest of the session: no step removes a symbol from the
\* OperatorTable, a syntax error or a semantic error in the rest of the
\* declaring statement leaves the symbol with the declared precedence (the
\* operator is lexed as such on the next line), and a later declaration of
\* the symbol replaces the precedence.
C14_RegistrationPersists ==
    [][(\A symbol \in DOMAIN Optab : symbol \in DOMAIN Optab')
       /\ (Handling(InSyntaxAfterPrototype, 1) =>
            /\ last'.kind = "syntax"
            /\ Optab' = ("|" :> 5))
       /\ (Handling(InSyntaxAfterPrototype, 2) =>
            /\ last'.kind = "expr"
            /\ last'.stmt = Bin("|", Num(1), Num(2))
            /\ Optab' = ("|" :> 5))
       /\ (Handling(InSemanticAfterPrototype, 1) =>
            /\ last'.kind = "def" /\ last'.err = "UnknownVariable"
            /\ Optab' = ("|" :> 5))
       /\ (Handling(InPrecedenceZeroAfter, 2) =>
            /\ last'.kind = "precedence"
            /\ Optab' = ("|" :> 5))
       /\ (Handling(InRedeclared, 2) =>
            /\ Optab = ("|" :> 10)
            /\ last'.kind = "def" /\ last'.err = "none"
            /\ Optab' = ("|" :> 1))]_vars

C14_Witness ==
    /\ cin = InSyntaxAfterPrototype /\ reported = 1 /\ nstmt = 1
    /\ last.kind = "expr" /\ last.stmt = Bin("|", Num(1), Num(2))
    /\ Optab = ("|" :> 5)

\* The tokens yylex returns on an input up to the end-of-input token, under
\* an OperatorTable that stays as it is.
RECURSIVE TokensFrom(_, _, _)
\* A token with its semantic value told apart by kind: the number of a
\* NUMBER, the text of an IDENTIFIER, the character of an operator; the type
\* of any other token says all of it.
Told(tok) ==
    [type |-> tok.type, level |-> tok.level,
     number |-> IF tok.type = "NUMBER" THEN tok.val ELSE <<>>,
     text |-> IF tok.type = "IDENTIFIER" THEN tok.val ELSE <<>>,
     symbol |-> IF tok.type = "OPERATOR" THEN tok.val ELSE ""]

TokensAfter(inp, r, optab) ==
    IF r.tok.type = "YYEOF" THEN <<Told(r.tok)>>
    ELSE <<Told(r.tok)>> \o TokensFrom(inp, r.lx, optab)

TokensFrom(inp, lx, optab) == TokensAfter(inp, yylex(inp, lx, optab), optab)

Tokens(inp) == TokensFrom(inp, LexInit, <<>>)

\* The input with each comment taken out, from its '#' up to the end of its
\* line.
RECURSIVE UncommentedFrom(_, _, _)
UncommentedFrom(inp, i, InComment) ==
    IF i > Len(inp) THEN <<>>
    ELSE IF inp[i] = "#" \/ (InComment /\ inp[i] # "\n")
    THEN UncommentedFrom(inp, i + 1, TRUE)
    ELSE <<inp[i]>> \o UncommentedFrom(inp, i + 1, FALSE)

Uncommented(inp) == UncommentedFrom(inp, 1, FALSE)

\* C15: a comment is discarded: the tokens of an input are the tokens of
\* the input with its comments taken out, whatever follows the comment on
\* the next line, and a number on the line after a comment is the
\* expression statement it is without the comment.
C15_CommentsDiscarded ==
    /\ Tokens(cin) = Tokens(Uncommented(cin))
    /\ (cin = InCommentThenNumber /\ Events = 1 /\ Handled) =>
            last.kind = "expr" /\ last.stmt = Num(4)

\* The token yylex returns first on a line that starts with this character,
\* under the OperatorTable of the session.
FirstToken(ThisChar) == Told(yylex(<<ThisChar, " ", "a", ";", "\n">>, LexInit, Optab).tok)

\* C16: every character of the operator alphabet !&./:>| at the start of a
\* token is emitted as an operator token, of class k when the OperatorTable
\* gives it the precedence k in 1..10 and of the default class otherwise,
\* so each of them can be declared as a binary operator.
C16_OperatorAlphabetClassified ==
    /\ \A ThisChar \in Operators :
            FirstToken(ThisChar)
                = Told(OperatorToken(ThisChar, getTokPrecedence(Optab, ThisChar)))
    /\ (cin = InDotOperator /\ Events = 1 /\ Handled) =>
            last.kind = "def" /\ Optab = ("." :> 5)

\* Every character of the operator alphabet but the dot is emitted so.
OperatorsButDotClassified ==
    \A ThisChar \in Operators \ {"."} :
        FirstToken(ThisChar)
            = Told(OperatorToken(ThisChar, getTokPrecedence(Optab, ThisChar)))

\* The length of the longest run of digits and dots with at most one dot
\* that starts at position i.
RECURSIVE RunEnd(_, _, _)
RunEnd(inp, i, HasDot) ==
    IF i > Len(inp) \/ inp[i] \notin Digit \cup {"."} \/ (inp[i] = "." /\ HasDot)
    THEN i - 1
    ELSE RunEnd(inp, i + 1, HasDot \/ inp[i] = ".")

\* The first token of the input is the NUMBER spelled by its first n
\* characters, and the scanner is left with the character behind them.
NumberEndsAt(inp, r, n) ==
    /\ Told(r.tok) = Told(Token("NUMBER", Strtod(SubSeq(inp, 1, n)), 0))
    /\ r.lx.LastChar = inp[n + 1]
    /\ r.lx.pos = n + 2
    /\ r.lx.good

StartsWithNumber == cin \in NumberInputs \cup {InTwoDots}

\* C17: a numeric token takes the longest run of digits and dots with at
\* most one dot; at a second dot the scanner stops, reports nothing, and
\* the dot begins the next token, itself a number: 1.2.3 is the number 1.2
\* followed by the number .3, and it is the parser that refuses the second
\* number.
C17_NumberStopsAtSecondDot ==
    /\ StartsWithNumber =>
            /\ NumberEndsAt(cin, yylex(cin, LexInit, Optab), RunEnd(cin, 1, FALSE))
            /\ cin[RunEnd(cin, 1, FALSE) + 1] = "." => Tokens(cin)[2].type = "NUMBER"
    /\ cin = InTwoDots =>
            /\ Tokens(cin)[1].number = <<12, 1>>
            /\ Tokens(cin)[2].number = <<3, 1>>
            /\ Tokens(cin)[3].type = ";"
            /\ (Events = 1 /\ Handled) =>
                    last.kind = "syntax" /\ last.tok = "NUMBER" /\ reported = 1

C17_Witness ==
    /\ cin = InTwoDots /\ Events = 1 /\ last.kind = "syntax"
    /\ Tokens(cin)[2].number = <<3, 1>>

\* The entry block of the function lowered last.
LastEntry == last.func.blocks[1].instrs

\* Where the entry block loads a variable first, and where it stores 5.
LoadAt == CHOOSE i \in 1 .. Len(LastEntry) :
              LastEntry[i].op = "load" /\ \A j \in 1 .. i - 1 : LastEntry[j].op # "load"

StoreFiveAt == CHOOSE i \in 1 .. Len(LastEntry) :
                   LastEntry[i].op = "store" /\ LastEntry[i].args[1] = Const(5, 0)

\* C18: a BinaryExpr whose operator is not = lowers its left operand before
\* its right operand: in x + (x = 5) the load of x is emitted before the
\* store to x, so that `var x = 1 in x + (x = 5)` is 6, and when both
\* operands fail the error is the left operand's.
C18_LeftOperandFirst ==
    /\ (LoweredExpr({LoadPlusStore}) /\ last.err = "none") =>
            /\ LoadAt < StoreFiveAt
            /\ LastRun.ok /\ LastRun.val = <<6, 0>>
    /\ LoweredExpr({UnknownPlusUnknown}) => last.err = "UnknownVariable"

\* The right operand is lowered first: the store is emitted before the
\* load, the sum is 10, and the error is the right operand's.
RightOperandFirst ==
    /\ LoweredExpr({LoadPlusStore}) =>
            /\ last.err = "none"
            /\ StoreFiveAt < LoadAt
            /\ LastRun.ok /\ LastRun.val = <<10, 0>>
    /\ LoweredExpr({UnknownPlusUnknown}) => last.err = "UnknownFunction"

AssignOnly == VarIn(<< <<nX, Num(1)>> >>, Bin("=", Var(nX), Num(5)))

AssignShadowed ==
    VarIn(<< <<nX, Num(1)>> >>, VarIn(<< <<nX, Num(2)>> >>, Bin("=", Var(nX), Num(5))))

AssignAsOperand == VarIn(<< <<nX, Num(1)>> >>, Bin("+", Bin("=", Var(nX), Num(5)), Var(nX)))

AssignUnknown == Bin("=", Var(nZz), Num(5))

\* The instructions of the entry block with this opcode.
LastOps(op) == {i \in 1 .. Len(LastEntry) : LastEntry[i].op = op}

\* The slot the entry block stores this constant to.
SlotOf(n) ==
    LastEntry[CHOOSE i \in LastOps("store") : LastEntry[i].args[1] = Const(n, 0)].args[2]

\* C19: lowering x = e lowers e and not x: no load of x is emitted; with no
\* live binding of x it fails with UnknownVariable and emits no store;
\* otherwise it emits one store of e's value into the storage lookup(x)
\* returns, the innermost binding of x, and the value of the assignment is
\* e's value.
C19_AssignmentStoresValue ==
    /\ (LoweredExpr({AssignOnly, AssignShadowed, AssignAsOperand})) =>
            /\ last.err = "none"
            /\ Cardinality({i \in LastOps("store") : LastEntry[i].args[1] = Const(5, 0)}) = 1
            /\ Cardinality(LastOps("store")) = Cardinality(LastOps("alloca")) + 1
    /\ LoweredExpr({AssignOnly}) =>
            /\ LastOps("load") = {}
            /\ SlotOf(5) = SlotOf(1)
            /\ LastEntry[Len(LastEntry)] = Instr("ret", 0, "ret", <<Const(5, 0)>>)
            /\ LastRun.ok /\ LastRun.val = <<5, 0>>
    /\ LoweredExpr({AssignShadowed}) =>
            /\ LastOps("load") = {}
            /\ SlotOf(5) = SlotOf(2)
            /\ SlotOf(5) # SlotOf(1)
            /\ LastRun.ok /\ LastRun.val = <<5, 0>>
    /\ LoweredExpr({AssignAsOperand}) =>
            /\ Cardinality(LastOps("load")) = 1
            /\ SlotOf(5) = SlotOf(1)
            /\ \A i \in LastOps("fadd") : LastEntry[i].args[1] = Const(5, 0)
    /\ LoweredExpr({AssignUnknown}) =>
            /\ last.err = "UnknownVariable"
            /\ status = "terminated"
            /\ \A b \in 1 .. Len(last.func.blocks) :
                   \A i \in 1 .. Len(last.func.blocks[b].instrs) :
                       last.func.blocks[b].instrs[i].op \notin {"store", "load"}

C19_Witness ==
    /\ LoweredExpr({AssignShadowed})
    /\ SlotOf(5) = SlotOf(2)
    /\ LastRun.val = <<5, 0>>

ForInitUnbound == For(nI, Var(nI), Num(0), NoExpr, Num(99))

ForInitOuter == VarIn(<< <<nI, Num(3)>> >>, ForInitUnbound)

\* The load the init expression `i` is lowered to, and the store of its
\* value to the loop variable that follows it.
InitLoad == LastEntry[LoadAt]

InitStore == LastEntry[LoadAt + 1]

\* C20: the init expression of a ForExpr is lowered without the loop
\* variable in scope: the loop variable's name inside init is the binding
\* visible outside the loop, and an unknown variable when there is none.
C20_InitOutsideLoopScope ==
    /\ LoweredExpr({ForInitUnbound}) => last.err = "UnknownVariable"
    /\ LoweredExpr({ForInitOuter}) =>
            /\ last.err = "none"
            /\ InitLoad.args = <<SlotOf(3)>>
            /\ InitStore = Store(<<"r", InitLoad.id, 0>>, InitStore.args[2])
            /\ InitStore.args[2] # SlotOf(3)

\* The name inside init is the loop variable being introduced: init loads
\* the slot its own value is then stored to, which nothing was stored to
\* before.
InitSeesLoopVariable ==
    LoweredExpr({ForInitUnbound, ForInitOuter}) =>
        /\ last.err = "none"
        /\ InitStore = Store(<<"r", InitLoad.id, 0>>, InitLoad.args[1])
        /\ \A i \in 1 .. LoadAt - 1 :
               LastEntry[i].op = "store" => LastEntry[i].args[2] # InitLoad.args[1]

(***************************************************************************)
(* The lowering as it stands inside a function k with these parameters,    *)
(* the prologue of Function::codegen done: the place the lowering of a     *)
(* nested expression begins at.                                            *)
(***************************************************************************)
EntryOf(EntryBB) ==
    SymEnter(SetInsertPoint(PushBlock(EntryBB.cg, EntryBB.id, "Entry"), EntryBB.id))

Started(pr) == [pr.cg EXCEPT !.fn = pr.func, !.nid = 1]

InsideFunction(Params) ==
    ParamsCodegen(Params, 1,
                  EntryOf(NewBlock(Started(PrototypeCodegen(Proto(nK, Params), StartCg)))))

ScopeNames == {nX, nY, nI, nA, nB}

SameBindings(s1, s2) ==
    /\ s1.Depth = s2.Depth
    /\ \A n \in ScopeNames : lookup(s1, n) = lookup(s2, n)

\* `var x = 1, x = 2 in x`: a name bound twice in one scope.
BoundTwice == VarIn(<< <<nX, Num(1)>>, <<nX, Num(2)>> >>, Var(nX))

ScopedExprs ==
    ForExprs \cup VarExprs \cup ForInitExprs \cup AssignExprs
    \cup {LoadPlusStore, BoundTwice}

Surroundings == {<<>>, <<nX>>, <<nI, nX>>, <<nX, nY>>, <<nX, nX>>}

ScopeKept(cg, r) == ~Thrown(r.cg) => SameBindings(r.cg.sym, cg.sym)

ScopeKeptIn(e, cg) == ScopeKept(cg, Codegen(e, cg))

\* Every ForExpr and VarExpr lowered inside a function without an error
\* leaves the bindings of the function as they were.
NestedScopesRestored ==
    \A Params \in Surroundings : \A e \in ScopedExprs :
        ScopeKeptIn(e, InsideFunction(Params))

\* Every Function lowered from the state the session is in, without an
\* error, leaves the bindings of the session as they were.
AnonFunction(e) == <<"Function", Proto(AnonExpr, <<>>), e>>

FunctionKept(fn) == ScopeKept(StartCg, [cg |-> FunctionCodegen(fn, StartCg)])

FunctionScopesRestored ==
    status = "parsing" =>
        \A fn \in Defs \cup {AnonFunction(e) : e \in TopExprs} : FunctionKept(fn)

\* C21: once the lowering of a Function, a ForExpr or a VarExpr has
\* completed without an error, the depth of the SymbolTable and the lookup
\* of every name are what they were before it began: parameters, the loop
\* variable and the names of the var block are gone and what they shadowed
\* is visible again.
C21_LoweringRestoresBindings ==
    /\ (last.kind \in {"def", "expr"} /\ last.err = "none") =>
            Symtab.Depth = last.depth
    /\ FunctionScopesRestored
    /\ NestedScopesRestored

\* `def id(a) a` has been lowered, and inside a function with the
\* parameter x the lowering of `var x = 5 in var x = x + 1 in x` ends with
\* x bound to the parameter's slot again.
C21_Witness ==
    /\ last.kind = "def" /\ last.err = "none"
    /\ last.stmt = <<"Function", Proto(nId, <<nA>>), Var(nA)>>
    /\ lookup(Symtab, nA) = Null
    /\ LET cg == InsideFunction(<<nX>>)
           r == Codegen(VarIn(<< <<nX, Num(5)>> >>,
                              VarIn(<< <<nX, Bin("+", Var(nX), Num(1))>> >>, Var(nX))), cg)
       IN  /\ ~Thrown(r.cg)
           /\ lookup(cg.sym, nX) # Null
           /\ lookup(r.cg.sym, nX) = lookup(cg.sym, nX)

RECURSIVE IfCount(_)
\* The number of IfExpr nodes of an expression of IfExprs.
IfCount(e) ==
    CASE e[1] = "IfExpr" -> 1 + IfCount(e[2]) + IfCount(e[3]) + IfCount(e[4])
      [] e[1] = "VarExpr" -> IfCount(e[3])
      [] OTHER -> 0

LastBlocks == last.func.blocks

Labelled(label) == {b \in 1 .. Len(LastBlocks) : LastBlocks[b].label = label}

\* The blocks that end with an unconditional jump to this block.
JumpsTo(bid) ==
    {<<"b", LastBlocks[b].id, 0>> : b \in
        {b \in 1 .. Len(LastBlocks) :
            /\ LastBlocks[b].instrs # <<>>
            /\ LastBlocks[b].instrs[Len(LastBlocks[b].instrs)] = Br(bid)}}

\* The stores of this constant in the function lowered last.
StoresOf(n) ==
    {<<b, i>> \in (1 .. Len(LastBlocks)) \X (1 .. 8) :
        /\ i <= Len(LastBlocks[b].instrs)
        /\ LastBlocks[b].instrs[i].op = "store"
        /\ LastBlocks[b].instrs[i].args[1] = Const(n, 0)}

IfValue ==
    (If(Num(1), Num(2), Num(3)) :> <<2, 0>>)
    @@ (If(Num(0), Num(2), Num(3)) :> <<3, 0>>)
    @@ (VarIn(<< <<nX, NoExpr>> >>,
              If(Var(nX), Bin("=", Var(nX), Num(2)), Bin("=", Var(nX), Num(3))))
            :> <<3, 0>>)
    @@ (If(Num(1), If(Num(0), Num(5), Num(6)), Num(7)) :> <<6, 0>>)
    @@ (If(Num(0), Num(2), For(nI, Num(1), Num(0), NoExpr, Num(99))) :> <<0, 0>>)

\* C22: an IfExpr lowers its condition once and each branch once whatever
\* the condition is: one Then, one Else and one Merge block per if; each
\* branch ends with a jump to the merge block; the merge node has two
\* incoming pairs, whose blocks are the blocks the branches ended in, which
\* are not the blocks created for the branches when a branch holds an if or
\* a for; the function evaluates to the value of the branch chosen.
C22_IfLoweredOnceEachBranch ==
    LoweredExpr(IfExprs) =>
        /\ last.err = "none"
        /\ Cardinality(Labelled("Then")) = IfCount(last.stmt)
        /\ Cardinality(Labelled("Else")) = IfCount(last.stmt)
        /\ Cardinality(Labelled("Merge")) = IfCount(last.stmt)
        /\ \A b \in 1 .. Len(LastBlocks) : \A i \in 1 .. Len(LastBlocks[b].instrs) :
               LastBlocks[b].instrs[i].op = "condbr" /\ LastBlocks[b].label # "Loop"
                   => Count(LastBlocks[b].instrs, "cond") = 1
        /\ \A b \in Labelled("Merge") :
               LET Phi == LastBlocks[b].instrs[1]
               IN  /\ Phi.op = "phi"
                   /\ Len(Phi.args) = 4
                   /\ Phi.args[2] # Phi.args[4]
                   /\ JumpsTo(LastBlocks[b].id) = {Phi.args[2], Phi.args[4]}
                   /\ Count(LastBlocks[b].instrs, "iftmp") = 1
        /\ last.stmt[1] = "VarExpr" =>
               Cardinality(StoresOf(2)) = 1 /\ Cardinality(StoresOf(3)) = 1
        /\ LastRun.ok /\ LastRun.val = IfValue[last.stmt]

\* `if 1 then if 0 then 5 else 6 else 7` has been lowered: the outer merge
\* node takes the then value from the inner Merge block, and the function
\* evaluates to 6.
C22_Witness ==
    /\ LoweredExpr({If(Num(1), If(Num(0), Num(5), Num(6)), Num(7))})
    /\ \E b \in Labelled("Merge") : \E m \in Labelled("Merge") :
           LastBlocks[b].instrs[1].args[2] = <<"b", LastBlocks[m].id, 0>>
    /\ LastRun.val = <<6, 0>>

\* The expression a control form with the body `3 <op> 4` is.
ControlBody(c) == Bin(c.o.op, Num(3), Num(4))

ControlExpr(c) ==
    CASE c.form = "if" -> If(Num(1), Num(2), ControlBody(c))
      [] c.form = "for" -> For(nI, Num(1), Num(0), NoExpr, ControlBody(c))
      [] c.form = "var" -> VarIn(<< <<nV, NoExpr>> >>, ControlBody(c))

\* C23: the body of a control form extends as far to the right as
\* possible: in `if 1 then 2 else 3 OP 4`, `for i = 1, 0 in 3 OP 4` and
\* `var v in 3 OP 4`, OP being a built-in operator or an operator defined
\* at any precedence 1..10, the statement is parsed without an error and
\* OP is the operator of the body 3 OP 4, not an operator applied to the
\* control form.
C23_ControlBodyExtendsRight ==
    \A c \in ControlCases :
        cin = ControlInput(c) =>
            /\ reported = 0
            /\ last.kind \in {"none", "def", "expr", "eof"}
            /\ last.kind = "expr" => last.stmt = ControlExpr(c) /\ last.err = "none"

\* `def binary| 1 (a b) a;` and then `if 1 then 2 else 3 | 4;` have been
\* handled, the if holding 3 | 4 as its else branch.
C23_Witness ==
    /\ cin = ControlInput([form |-> "if", o |-> [op |-> "|", p |-> 1]])
    /\ last.kind = "expr"
    /\ last.stmt = If(Num(1), Num(2), Bin("|", Num(3), Num(4)))

\* x = (1 OP 2) and (x = 1) OP 2 as the body of `var x in`.
AssignsOperation(o) ==
    VarIn(<< <<nX, NoExpr>> >>, Bin("=", Var(nX), Bin(o.op, Num(1), Num(2))))

OperatesOnAssignment(o) ==
    VarIn(<< <<nX, NoExpr>> >>, Bin(o.op, Bin("=", Var(nX), Num(1)), Num(2)))

\* C24: assignment binds looser than every other binary operator:
\* `x = 1 OP 2` is parsed as x = (1 OP 2) for the built-in operators and
\* for an operator defined at any precedence 1..10.
C24_AssignmentBindsLoosest ==
    \A o \in PrecOperators("|") :
        (cin = AssignInput(o) /\ last.kind = "expr") =>
            last.stmt = AssignsOperation(o)

\* An operator defined at the precedence 1 or 2 takes the assignment as
\* its left operand; the built-in operators and the precedences 3..10 are
\* part of the value assigned.
AssignmentAboveLevelTwo ==
    \A o \in PrecOperators("|") :
        (cin = AssignInput(o) /\ last.kind = "expr") =>
            last.stmt = IF o.p \in {1, 2} THEN OperatesOnAssignment(o)
                        ELSE AssignsOperation(o)

\* No scope is open and no binding is live.
NoBinding(sym) ==
    /\ sym.Depth = 0
    /\ sym.Values = <<>>
    /\ DOMAIN sym.NamedValues = {}

\* C25: after every statement, lowered or failed with a syntax or a
\* semantic error, the depth of the SymbolTable is 0 and no binding is
\* live: each enterScope of the statement has had its leaveScope and no
\* parameter binding is left behind.
C25_NoBindingAfterStatement ==
    last.kind # "none" => NoBinding(Symtab)

\* As long as the session is running, which it is not after a semantic
\* error, no scope is open and no binding is live.
RunningSessionHasNoBinding ==
    status = "parsing" => NoBinding(Symtab)

\* Only a semantic error leaves a scope open.
OpenScopeAfterSemanticError ==
    ~NoBinding(Symtab) => status = "terminated" /\ last.err # "none"

\* No Function lowered from the state the session is in calls leaveScope at
\* depth 0 or ends below depth 0, whether it is lowered or fails.
Underflows(cg) == cg.under \/ cg.sym.Depth < 0

NoFunctionUnderflows ==
    status = "parsing" =>
        \A fn \in Defs \cup {AnonFunction(e) : e \in TopExprs \cup {BoundTwice}} :
            ~Underflows(FunctionCodegen(fn, StartCg))

\* C26: in no execution, whatever the statements are, is leaveScope called
\* while the depth of the SymbolTable is 0: the depth never goes below 0.
C26_LeaveScopeNeverAtDepthZero ==
    /\ ~last.under
    /\ Symtab.Depth >= 0
    /\ NoFunctionUnderflows

\* A var expression has been lowered in a session: leaveScope was called
\* for the var block and for the function, each at a depth above 0.
C26_Witness ==
    /\ cin \in AssignInputs
    /\ last.kind = "expr" /\ last.err = "none"
    /\ last.stmt[1] = "VarExpr"
    /\ ~last.under /\ Symtab.Depth = 0

\* The steps of parse: a statement is read and acted on, an error is
\* reported, or the end of input is accepted.
ParseNext ==
    \/ ReplEmpty
    \/ ReplExpr
    \/ ReplExtern
    \/ ReplDef
    \/ ReplSyntaxError
    \/ ReplAccept

\* parse is running: one of its steps can be taken, whatever is read next.
Parsing == status = "parsing"

\* The driver as a running process, which takes a step it can take: weak
\* fairness of the loop's test, and of the steps of parse, for which
\* ENABLED <<ParseNext>>_vars is written as the state predicate Parsing.
SpecReplFair ==
    /\ SpecRepl
    /\ WF_vars(MainLoop)
    /\ ([]<>~Parsing \/ []<><<ParseNext>>_vars)

\* The read loop is over: main went on past it, or the process was ended
\* by an exception.
LoopOver == status \in {"exited", "terminated"}

\* The end of the stream was found by getchar() in the identifier scan:
\* the lexer yields the end-of-input token and std::cin is still true.
EndFoundByIdentifierScan == lex.LastChar = EOF /\ lex.good

\* C27: for every input, once the character stream is exhausted the read
\* loop of the driver exits after finitely many calls of parse, also when
\* the last character is part of an identifier or the last statement is
\* incomplete.
C27_ReadLoopExits == <>LoopOver

\* The loop is over for every input but those whose end the identifier scan
\* finds: from there every parse accepts the end of input and the loop
\* goes round for ever.
LoopOverUnlessIdentifierAtEnd == <>LoopOver \/ <>[]EndFoundByIdentifierScan

IncompleteLastStatementExits == cin = InIncompleteLast => <>(status = "exited")

IdentifierAtEndLoops ==
    cin = InEndsInIdentifier => <>[](EndFoundByIdentifierScan /\ ~LoopOver)

====
